---- MODULE Spec2Model ----
(***************************************************************************)
(* The scholarship portal: one-time activation tokens (validarToken /      *)
(* activarCuenta), the admin operations on a student account               *)
(* (resetearPerfilEstudiante / desvincularCuentaEstudiante), the access    *)
(* gate (middleware and pages), the approval of volunteer hours, the       *)
(* notifications and the profile wizard of the student.                    *)
(* Every await of the handlers is one atomic step; the relational tables   *)
(* and the credential store (Supabase Auth) are shared state.              *)
(***************************************************************************)
EXTENDS Integers, Sequences, FiniteSets, TLC

\* ------------------------------------------------------------------ bounds
\* number of identities auth.admin.createUser may create in one behaviour of
\* the account life cycle
MaxUsuarios == 1
\* number of identities auth.admin.createUser may create when activations race
MaxUsuariosCarrera == 2
\* number of tokens randomUUID may issue in one behaviour
MaxTokens == 1
\* number of tokens randomUUID may issue when unlinks race
MaxTokensCarrera == 2
\* number of redirects a browser follows in one navigation
MaxSaltos == 4

\* ------------------------------------------------------------- data model
\* SQL null of a text column
NULL == "NULL"
\* SQL null of a uuid column (onboarding_token, auth_user_id); uuids are 1, 2, ...
NULL_ID == 0

\* JavaScript falsiness of a nullable text value: !x
EsFalsy(x) == x = NULL \/ x = ""

\* the keys of datosReset
CamposReset ==
  { "fecha_de_nacimiento", "telefono_llamada", "telefono_whatsapp",
    "id_becado_universidad", "correo_estudiantil",
    "departamento", "municipio", "distrito",
    "nombre_emergencia", "telefono_emergencia", "parentesco_emergencia",
    "tiene_una_discapacidad", "detalle_discapacidad", "miembro_de_consejo",
    "becado_elite", "url_carnet_digital", "url_expediente_digital" }

\* the columns of estudiantes that the account operations read or write
CamposCuenta ==
  { "id", "id_becado_interno", "nombre_completo_becado", "correo_personal",
    "auth_user_id", "ha_completado_onboarding", "onboarding_token" }

Columnas == CamposCuenta \cup CamposReset

\* supabase .update(datos) applied to one row: the named columns are
\* overwritten, every other column keeps its value
Actualizar(fila, datos) ==
  [c \in DOMAIN fila |-> IF c \in DOMAIN datos THEN datos[c] ELSE fila[c]]

\* students present in the table (rows are never inserted or deleted here)
Estudiantes == {"E1", "E2", "E3"}

\* a row of estudiantes
Fila(id, interno, nombre, correo, auth, completado, token, perfil) ==
  [c \in Columnas |->
     CASE c = "id" -> id
       [] c = "id_becado_interno" -> interno
       [] c = "nombre_completo_becado" -> nombre
       [] c = "correo_personal" -> correo
       [] c = "auth_user_id" -> auth
       [] c = "ha_completado_onboarding" -> completado
       [] c = "onboarding_token" -> token
       [] OTHER -> perfil]

\* --------------------------------------------------------------- inputs
\* email.trim().toLowerCase()
NormalizarCorreo(email) ==
  CASE email = " Jane@X.com " -> "jane@x.com"
    [] OTHER -> email

\* the emails callers present when two activations race
Correos == {" Jane@X.com ", "jane@x.com", "otro@x.com"}
\* the emails callers present in the account life cycle
CorreosCiclo == {" Jane@X.com ", "otro@x.com"}

Mayusculas == {"A","B","C","D","E","F","G","H","I","J","K","L","M",
               "N","O","P","Q","R","S","T","U","V","W","X","Y","Z"}
Minusculas == {"a","b","c","d","e","f","g","h","i","j","k","l","m",
               "n","o","p","q","r","s","t","u","v","w","x","y","z"}
Digitos == {"0","1","2","3","4","5","6","7","8","9"}

\* passwords are sequences of characters
Passwords ==
  { <<"s","h","o","r","t","1">>,
    <<"S","h","o","r","t","1","2">>,
    <<"A","b","c","d","e","f","g","1">>,
    <<"L","o","n","g","E","n","o","u","g","h","1">>,
    <<"l","o","n","g","e","n","o","u","g","h","1">>,
    <<"L","O","N","G","E","N","O","U","G","H","1">>,
    <<"L","o","n","g","E","n","o","u","g","h">>,
    <<"1","2","3","4","5","6","7","8">> }

\* the one password callers present in the account life cycle
PasswordsCiclo == { <<"L","o","n","g","E","n","o","u","g","h","1">> }

Contiene(password, clase) == \E i \in 1..Len(password) : password[i] \in clase

\* the messages of passwordSchema, in the order zod reports the issues
MSG_PW_MIN == "La contrasena debe tener al menos 8 caracteres"
MSG_PW_MAYUS == "La contrasena debe contener al menos una letra mayuscula"
MSG_PW_MINUS == "La contrasena debe contener al menos una letra minuscula"
MSG_PW_NUM == "La contrasena debe contener al menos un numero"

\* mutant of LongitudMinima: the bound off by one
LongitudMinimaSiete(password) == Len(password) >= 7

\* zod .min(8)
LongitudMinima(password) == Len(password) >= 8

\* passwordSchema.safeParse(password): success, and issues[0].message
passwordSchema(password) ==
  IF ~LongitudMinima(password) THEN [success |-> FALSE, message |-> MSG_PW_MIN]
  ELSE IF ~Contiene(password, Mayusculas) THEN [success |-> FALSE, message |-> MSG_PW_MAYUS]
  ELSE IF ~Contiene(password, Minusculas) THEN [success |-> FALSE, message |-> MSG_PW_MINUS]
  ELSE IF ~Contiene(password, Digitos) THEN [success |-> FALSE, message |-> MSG_PW_NUM]
  ELSE [success |-> TRUE, message |-> "ok"]

\* ------------------------------------------------------------- messages
MSG_TOKEN_INVALIDO == "Token invalido o no encontrado"
MSG_TOKEN_USADO == "Este token ya ha sido utilizado"
MSG_FALTAN_DATOS == "Faltan datos requeridos en el registro del estudiante"
MSG_ERROR_CREAR == "Error al crear la cuenta. El correo podria estar en uso."
MSG_ERROR_VINCULAR == "Error al vincular la cuenta. Por favor, intenta nuevamente."
MSG_ERROR_INESPERADO == "Error inesperado. Por favor, intenta nuevamente."
\* the three ways activarCuenta ends without returning: redirect(...)
REDIRECT_DASHBOARD == "redirect /dashboard"
REDIRECT_ADMIN == "redirect /admin/dashboard"
REDIRECT_LOGIN == "redirect /login?error=Cuenta creada. Por favor, inicia sesion."

Redirecciones == {REDIRECT_DASHBOARD, REDIRECT_ADMIN, REDIRECT_LOGIN}

\* ------------------------------------------------------------------ state
VARIABLES
  estudiantes,     \* table estudiantes: student -> row
  authUsers,       \* credential store: set of [id, email]
  administrativos, \* table usuarios_administrativos: set of auth_user_id
  nextUid,         \* next identity id the credential store hands out
  nextToken,       \* next value randomUUID returns
  act,             \* running activarCuenta calls: slot -> locals
  adm,             \* running admin calls (reset / desvincular): slot -> locals
  retorno,         \* the call that returned in the last step, if one did: its
                   \* locals and its result
  exitos,          \* history: <<token, identity>> of every activarCuenta that
                   \* ended in a success redirect
  mw,              \* the request the middleware (and then the page) is handling
  salida,          \* the answer the middleware or the page gave in the last
                   \* step, if one did
  solicitudes,     \* table solicitudes_horas: id -> row
  horas,           \* table horas_voluntariados: set of rows
  sol,             \* running aprobarSolicitud / rechazarSolicitud calls
  retornoSol,      \* the aprobar/rechazar call that returned in the last step
  notificaciones,  \* table notificaciones: set of rows
  notif,           \* the running call of a notification action
  retornoNotif,    \* the notification call that returned in the last step
  perfil,          \* the running call of guardarPerfilCompleto
  retornoPerfil,   \* the guardarPerfilCompleto call that returned in the last step
  nav              \* the navigation a browser is making: the redirects it follows

\* the state of the account life cycle
varsCuenta == <<estudiantes, authUsers, administrativos, nextUid, nextToken,
                act, adm, retorno, exitos>>
\* the state of the access gate
varsGate == <<mw, salida>>
\* the state of the approval workflow
varsSolicitudes == <<solicitudes, horas, sol, retornoSol>>

\* the state of the student portal: notifications, wizard, navigation
varsPortal == <<notificaciones, notif, retornoNotif, perfil, retornoPerfil, nav>>

vars == <<estudiantes, authUsers, administrativos, nextUid, nextToken,
          act, adm, retorno, exitos, mw, salida, solicitudes, horas, sol,
          retornoSol, notificaciones, notif, retornoNotif, perfil,
          retornoPerfil, nav>>

ActSlots == {"a1", "a2"}
AdmSlots == {"m1", "m2"}

Ids(usuarios) == {u.id : u \in usuarios}
CorreosEnUso(usuarios) == {u.email : u \in usuarios}

\* the {success, message} result of the server actions; a redirect(...) of
\* activarCuenta is recorded as a success whose message is the target
Fallo(message) == [success |-> FALSE, message |-> message]
Exito(message) == [success |-> TRUE, message |-> message]

ActIdle ==
  [pc |-> "idle", token |-> NULL_ID, email |-> NULL, password |-> <<>>,
   authUserId |-> NULL_ID, tokenQuemado |-> FALSE, filas |-> 0, correo |-> NULL]

AdmIdle ==
  [pc |-> "idle", op |-> NULL, estudianteId |-> NULL,
   idNumero |-> NULL, authUserId |-> NULL_ID, nuevoToken |-> NULL_ID,
   caller |-> NULL_ID, consulta |-> NULL]

SinRetorno ==
  [op |-> NULL, res |-> Fallo(NULL), token |-> NULL_ID, authUserId |-> NULL_ID,
   tokenQuemado |-> FALSE, filas |-> 0, correo |-> NULL, password |-> <<>>,
   idNumero |-> NULL, nuevoToken |-> NULL_ID, caller |-> NULL_ID,
   consulta |-> NULL]

\* ------------------------------------------------ access gate: requests
\* pathnames are sequences of characters
P_RAIZ == <<"/">>
P_LOGIN == <<"/","l","o","g","i","n">>
P_ACTIVAR == <<"/","a","c","t","i","v","a","r">>
P_AUTH == <<"/","a","u","t","h">>
P_CALLBACK == <<"/","c","a","l","l","b","a","c","k">>
P_UNAUTHORIZED == <<"/","u","n","a","u","t","h","o","r","i","z","e","d">>
P_ADMIN == <<"/","a","d","m","i","n">>
P_DASHBOARD == <<"/","d","a","s","h","b","o","a","r","d">>
P_ESTUDIANTES == <<"/","e","s","t","u","d","i","a","n","t","e","s">>
P_HORAS == <<"/","h","o","r","a","s","-","v","o","l","u","n","t","a","r","i","a","d","o">>
P_COMPLETAR == <<"/","c","o","m","p","l","e","t","a","r","-","p","e","r","f","i","l">>

\* the pathnames requested: the public ones (and one below each prefix), the
\* admin area, the student area, /auth outside the callback, unknown routes
Pathnames ==
  { P_RAIZ, P_LOGIN, P_LOGIN \o <<"x">>, P_ACTIVAR, P_AUTH \o P_CALLBACK,
    P_UNAUTHORIZED, P_AUTH \o <<"/","r">>, P_ADMIN, P_ADMIN \o P_DASHBOARD,
    P_ADMIN \o P_ESTUDIANTES, P_ADMIN \o <<"i","s","t">>, P_DASHBOARD,
    P_DASHBOARD \o <<"/","x">>, P_HORAS, P_COMPLETAR, <<"/","x">> }

\* what the middleware and the page answer: the response is served, or a
\* redirect to a pathname
Servir == [tipo |-> "response", destino |-> <<>>]
Redirigir(destino) == [tipo |-> "redirect", destino |-> destino]

MwIdle == [pc |-> "idle", pathname |-> <<>>, user |-> NULL_ID]

SinSalida ==
  [op |-> NULL, pathname |-> <<>>, user |-> NULL_ID, consulta |-> NULL,
   res |-> Servir]

\* ------------------------------------------- approval workflow: the tables
\* a value of type number | undefined: an integer, NaN, or undefined
Numero(v) == [tipo |-> "number", nan |-> FALSE, v |-> v]
NaN == [tipo |-> "number", nan |-> TRUE, v |-> 0]
UNDEFINED == [tipo |-> "undefined", nan |-> FALSE, v |-> 0]

Solicitudes == {"S1", "S2"}

\* the requests students have filed: S1 by E1, S2 by E3; estado has the
\* default of the table
SolicitudesIniciales ==
  [i \in Solicitudes |->
     [id |-> i, estudiante_id |-> IF i = "S1" THEN "E1" ELSE "E3",
      estado |-> "pendiente", cantidad_horas |-> Numero(3)]]

SolSlots == {"s1", "s2"}

\* a row of horas_voluntariados as aprobarSolicitud builds it; solicitud (the
\* request it was inserted for) and n (its serial number) are not columns of
\* the table, they tell the rows apart
HorasData(interno, nombre, cantidad) ==
  [id_becado_interno |-> interno, nombre_completo_becado |-> nombre,
   cantidad_horas |-> cantidad, estado |-> "validado"]

SolIdle ==
  [pc |-> "idle", op |-> NULL, solicitudId |-> NULL, estudiante_id |-> NULL,
   cantidad_horas |-> NaN, horasData |-> HorasData(NULL, NULL, NaN),
   caller |-> NULL_ID, horasAprobadas |-> UNDEFINED]

\* --------------------------------------------- student portal: the tables
\* a row of notificaciones
Notificacion(id, receptor_id, leido) ==
  [id |-> id, receptor_id |-> receptor_id, leido |-> leido]

\* the notifications the workflow has left: two for the student E2 (identity
\* 1), one of them read, and one for the administrator (identity 2)
NotificacionesIniciales ==
  {Notificacion(1, 1, FALSE), Notificacion(2, 1, TRUE), Notificacion(3, 2, FALSE)}

NotifIdle == [pc |-> "idle", op |-> NULL, user |-> NULL_ID, notificationId |-> NULL_ID]
SinRetornoNotif ==
  [op |-> NULL, success |-> FALSE, user |-> NULL_ID, notificationId |-> NULL_ID]

\* escrito: the update of PASO 3 of the call changed a row
PerfilIdle ==
  [pc |-> "idle", user |-> NULL_ID, nombre_emergencia |-> NULL,
   escrito |-> FALSE, generados |-> FALSE]
SinRetornoPerfil ==
  [op |-> NULL, res |-> Fallo(NULL), user |-> NULL_ID, escrito |-> FALSE]

\* visitadas are the routes the browser left by a redirect, repetida tells
\* that a redirect led to one of them again
NavIdle ==
  [pc |-> "idle", user |-> NULL_ID, ruta |-> <<>>, visitadas |-> {},
   repetida |-> FALSE, saltos |-> 0]

SinRetornoSol ==
  [op |-> NULL, res |-> Fallo(NULL), solicitudId |-> NULL, paso |-> NULL,
   consulta |-> NULL, caller |-> NULL_ID, horasAprobadas |-> UNDEFINED,
   cantidad_horas |-> NaN]

\* E1 is an invited student holding the token 2; E2 is an activated student
\* (identity 1) whose wizard is filled; E3 is an invited student holding the
\* token 1 whose imported record has no name; identity 2 is the administrator.
EstudiantesIniciales ==
  [e \in Estudiantes |->
     CASE e = "E1" ->
            Fila("E1", "BDI-001", "Jane Doe", "jane@x.com", NULL_ID, FALSE, 2, NULL)
       [] e = "E2" ->
            Fila("E2", "BDI-002", "Ana Paz", "ana@x.com", 1, TRUE, NULL_ID, "v")
       [] OTHER ->
            Fila("E3", "BDI-003", "", "sin@x.com", NULL_ID, FALSE, 1, NULL)]

\* everything but the table estudiantes
InitResto ==
  /\ authUsers = {[id |-> 1, email |-> "ana@x.com"], [id |-> 2, email |-> "admin@x.com"]}
  /\ administrativos = {2}
  /\ nextUid = 3
  /\ nextToken = 3
  /\ act = [a \in ActSlots |-> ActIdle]
  /\ adm = [s \in AdmSlots |-> AdmIdle]
  /\ retorno = SinRetorno
  /\ exitos = {}
  /\ mw = MwIdle
  /\ salida = SinSalida
  /\ solicitudes = SolicitudesIniciales
  /\ horas = {}
  /\ sol = [s \in SolSlots |-> SolIdle]
  /\ retornoSol = SinRetornoSol
  /\ notificaciones = NotificacionesIniciales
  /\ notif = NotifIdle
  /\ retornoNotif = SinRetornoNotif
  /\ perfil = PerfilIdle
  /\ retornoPerfil = SinRetornoPerfil
  /\ nav = NavIdle

Init ==
  /\ estudiantes = EstudiantesIniciales
  /\ InitResto

\* what an imported record may hold as internal ID and as name: both present,
\* or one of them null, empty or blank
Importados ==
  {<<"BDI-003", "Eva Sol">>}
    \cup {<<interno, "Eva Sol">> : interno \in {NULL, "", " "}}
    \cup {<<"BDI-003", nombre>> : nombre \in {NULL, "", " "}}

\* the same tables, the record of E3 imported with any internal ID and name
InitImportados ==
  /\ \E importado \in Importados :
       estudiantes = [EstudiantesIniciales EXCEPT
                        !["E3"].id_becado_interno = importado[1],
                        !["E3"].nombre_completo_becado = importado[2]]
  /\ InitResto

UsuariosCreados == nextUid - 3
TokensEmitidos == nextToken - 3

\* ------------------------------------------------------------ validarToken
\* .eq('onboarding_token', token): the rows the filter matches (a null column
\* never matches an equality filter)
FilasConToken(tabla, token) ==
  {e \in DOMAIN tabla : token # NULL_ID /\ tabla[e].onboarding_token = token}

\* validarToken(token) evaluated on a table: .single() gives an error unless
\* exactly one row matches
validarTokenEn(tabla, token) ==
  LET filas == FilasConToken(tabla, token) IN
  IF Cardinality(filas) # 1
  THEN Fallo(MSG_TOKEN_INVALIDO)
  ELSE LET data == tabla[CHOOSE e \in filas : TRUE] IN
       IF data.ha_completado_onboarding
       THEN Fallo(MSG_TOKEN_USADO)
       ELSE IF EsFalsy(data.nombre_completo_becado) \/ EsFalsy(data.correo_personal)
       THEN Fallo(MSG_FALTAN_DATOS)
       ELSE Exito("ok")

validarToken(token) == validarTokenEn(estudiantes, token)

\* ----------------------------------------------------------- activarCuenta
\* the tokens a caller may present: every token issued so far
TokensPresentables == 1..(nextToken - 1)

\* mutant of datosActivacion: the update without the burn of the token
datosActivacionSinQuemar(uid, email) ==
  [auth_user_id |-> uid,
   correo_personal |-> NormalizarCorreo(email),
   ha_completado_onboarding |-> TRUE]

\* the payload of the update of Paso 2
datosActivacion(uid, email) ==
  [auth_user_id |-> uid,
   correo_personal |-> NormalizarCorreo(email),
   ha_completado_onboarding |-> TRUE,
   onboarding_token |-> NULL_ID]

\* mutant of ResultadoCatch: the catch block without the test of tokenQuemado
ResultadoCatchSinBandera(tokenQuemado) == Fallo(MSG_ERROR_INESPERADO)

\* the outcome of the catch block of activarCuenta for a non-redirect error
ResultadoCatch(tokenQuemado) ==
  IF tokenQuemado THEN Exito(REDIRECT_LOGIN) ELSE Fallo(MSG_ERROR_INESPERADO)

\* the call in slot a ends: the slot is free again, the result is recorded,
\* and a success is added to the history
Terminar(a, locals, res) ==
  /\ act' = [act EXCEPT ![a] = ActIdle]
  /\ retorno' = [SinRetorno EXCEPT !.op = "activarCuenta", !.res = res,
                                   !.token = locals.token,
                                   !.authUserId = locals.authUserId,
                                   !.tokenQuemado = locals.tokenQuemado,
                                   !.filas = locals.filas,
                                   !.correo = locals.correo,
                                   !.password = locals.password]
  /\ exitos' = IF res.success
               THEN exitos \cup {<<locals.token, locals.authUserId>>}
               ELSE exitos

\* Paso 0 and the password check: validarToken(token), passwordSchema.safeParse
ActivarValidar(a, passwords, correos) ==
  /\ act[a].pc = "idle"
  /\ \E token \in TokensPresentables :
       LET validacion == validarToken(token) IN
       IF ~validacion.success
       THEN Terminar(a, [ActIdle EXCEPT !.token = token], Fallo(validacion.message))
       ELSE \E password \in passwords :
              LET passwordValidation == passwordSchema(password) IN
              IF ~passwordValidation.success
              THEN Terminar(a, [ActIdle EXCEPT !.token = token, !.password = password],
                            Fallo(passwordValidation.message))
              ELSE \E email \in correos :
                     /\ act' = [act EXCEPT ![a] =
                                 [ActIdle EXCEPT !.pc = "crear", !.token = token,
                                                 !.email = email, !.password = password]]
                     /\ retorno' = SinRetorno /\ UNCHANGED exitos
  /\ UNCHANGED <<estudiantes, authUsers, administrativos, nextUid, nextToken, adm>>

\* Paso 1: auth.admin.createUser; the credential store refuses an email in use
\* (max bounds the identities created in one behaviour)
ActivarCrearUsuario(a, max) ==
  /\ act[a].pc = "crear"
  /\ \E r \in {"ok", "error", "throw"} :
       CASE r = "ok" ->
              /\ NormalizarCorreo(act[a].email) \notin CorreosEnUso(authUsers)
              /\ UsuariosCreados < max
              /\ authUsers' = authUsers \cup
                   {[id |-> nextUid, email |-> NormalizarCorreo(act[a].email)]}
              /\ nextUid' = nextUid + 1
              /\ act' = [act EXCEPT ![a].pc = "vincular", ![a].authUserId = nextUid]
              /\ retorno' = SinRetorno /\ UNCHANGED exitos
         [] r = "error" ->
              /\ Terminar(a, act[a], Fallo(MSG_ERROR_CREAR))
              /\ UNCHANGED <<authUsers, nextUid>>
         [] r = "throw" ->
              /\ Terminar(a, act[a], ResultadoCatch(act[a].tokenQuemado))
              /\ UNCHANGED <<authUsers, nextUid>>
  /\ UNCHANGED <<estudiantes, administrativos, nextToken, adm>>

\* the table after update(datos).eq('onboarding_token', token)
TablaVinculada(tabla, token, datos) ==
  [e \in DOMAIN tabla |->
     IF e \in FilasConToken(tabla, token) THEN Actualizar(tabla[e], datos) ELSE tabla[e]]

\* Paso 2: update ... .eq('onboarding_token', token); only updateError is read,
\* the number of rows the update matched is not
ActivarVincular(a) ==
  /\ act[a].pc = "vincular"
  /\ \E r \in {"ok", "error", "throw"} :
       CASE r = "ok" ->
              /\ estudiantes' =
                   TablaVinculada(estudiantes, act[a].token,
                                  datosActivacion(act[a].authUserId, act[a].email))
              /\ act' = [act EXCEPT
                           ![a].pc = "correo", ![a].tokenQuemado = TRUE,
                           ![a].filas = Cardinality(FilasConToken(estudiantes, act[a].token))]
              /\ retorno' = SinRetorno /\ UNCHANGED exitos
         [] r = "error" ->
              /\ act' = [act EXCEPT ![a].pc = "compensar"]
              /\ retorno' = SinRetorno /\ UNCHANGED <<estudiantes, exitos>>
         [] r = "throw" ->
              /\ Terminar(a, act[a], ResultadoCatch(act[a].tokenQuemado))
              /\ UNCHANGED estudiantes
  /\ UNCHANGED <<authUsers, administrativos, nextUid, nextToken, adm>>

\* the branch if (updateError): auth.admin.deleteUser(authUserId), whose own
\* error is not read, then the failure result
ActivarCompensar(a) ==
  /\ act[a].pc = "compensar"
  /\ \E r \in {"ok", "error", "throw"} :
       CASE r = "ok" ->
              /\ authUsers' = {u \in authUsers : u.id # act[a].authUserId}
              /\ Terminar(a, act[a], Fallo(MSG_ERROR_VINCULAR))
         [] r = "error" ->
              /\ authUsers' = authUsers
              /\ Terminar(a, act[a], Fallo(MSG_ERROR_VINCULAR))
         [] r = "throw" ->
              /\ authUsers' = authUsers
              /\ Terminar(a, act[a], ResultadoCatch(act[a].tokenQuemado))
  /\ UNCHANGED <<estudiantes, administrativos, nextUid, nextToken, adm>>

\* mutant of TrasCorreo: the error of the email step not caught
TrasCorreoSinCatch(r) == IF r = "fallo" THEN "compensar" ELSE "login"

\* where activarCuenta goes on after Paso 2.5: the catch of the email step
\* swallows its error, Paso 3 follows in both cases
TrasCorreo(r) == "login"

\* Paso 2.5: the welcome email (the select of the name, resend.emails.send),
\* inside its own try/catch
ActivarCorreo(a) ==
  /\ act[a].pc = "correo"
  /\ \E r \in {"enviado", "fallo"} :
       act' = [act EXCEPT ![a].pc = TrasCorreo(r), ![a].correo = r]
  /\ retorno' = SinRetorno
  /\ UNCHANGED <<estudiantes, authUsers, administrativos, nextUid, nextToken, adm, exitos>>

\* Paso 3: createClient and signInWithPassword; an identity that was deleted
\* in the meantime cannot sign in
ActivarLogin(a) ==
  /\ act[a].pc = "login"
  /\ \E r \in {"ok", "error", "throw"} :
       CASE r = "ok" ->
              /\ act[a].authUserId \in Ids(authUsers)
              /\ act' = [act EXCEPT ![a].pc = "rol"]
              /\ retorno' = SinRetorno /\ UNCHANGED exitos
         [] r = "error" -> Terminar(a, act[a], Exito(REDIRECT_LOGIN))
         [] r = "throw" -> Terminar(a, act[a], ResultadoCatch(act[a].tokenQuemado))
  /\ UNCHANGED <<estudiantes, authUsers, administrativos, nextUid, nextToken, adm>>

\* the lookup in usuarios_administrativos after the sign-in, and the redirect
ActivarRol(a) ==
  /\ act[a].pc = "rol"
  /\ \E r \in {"ok", "error", "throw"} :
       LET isAdmin == r = "ok" /\ act[a].authUserId \in administrativos IN
       CASE r = "throw" -> Terminar(a, act[a], ResultadoCatch(act[a].tokenQuemado))
         [] OTHER -> Terminar(a, act[a], Exito(IF isAdmin THEN REDIRECT_ADMIN
                                                         ELSE REDIRECT_DASHBOARD))
  /\ UNCHANGED <<estudiantes, authUsers, administrativos, nextUid, nextToken, adm>>

\* ------------------------------------------------- admin operations: results
MSG_ID_INVALIDO == "ID de estudiante invalido."
MSG_NO_AUTENTICADO == "No hay usuario autenticado. Por favor, inicia sesion nuevamente."
MSG_SIN_PERMISOS == "No tienes permisos para realizar esta accion."
MSG_NO_ENCONTRADO == "No se pudo encontrar el estudiante especificado."
MSG_ERROR_COLUMNAS == "Error: Una o mas columnas no existen en la base de datos."
MSG_ERROR_PERMISOS == "Error de permisos: No tienes permiso para actualizar."
MSG_ERROR_RESET == "Error al resetear el perfil"
MSG_ERROR_DESVINCULAR_DB == "Error al desvincular el estudiante en la base de datos"
MSG_SIN_REGISTRO == "Error: No se encontro el registro del estudiante. Por favor, verifica el ID."
MSG_RESET_OK == "Perfil reseteado exitosamente."
MSG_DESVINCULADO_OK == "Cuenta desvinculada exitosamente."
MSG_PARCIAL_AUTH == "El estudiante fue desvinculado en la base de datos, pero hubo un error al borrar el usuario de Auth"
MSG_PARCIAL_AUTH_INESPERADO == "El estudiante fue desvinculado en la base de datos, pero hubo un error inesperado al borrar el usuario de Auth"
MSG_ADMIN_INESPERADO == "Error inesperado: "

\* the message of a failed update of estudiantes, by the kind of updateError
MensajeErrorUpdate(op, clase) ==
  CASE clase = "columna" -> MSG_ERROR_COLUMNAS
    [] clase = "permiso" -> MSG_ERROR_PERMISOS
    [] OTHER -> IF op = "reset" THEN MSG_ERROR_RESET ELSE MSG_ERROR_DESVINCULAR_DB

\* every message desvincularCuentaEstudiante returns when its update of
\* estudiantes did not go through
MensajesFalloDB ==
  {MSG_ERROR_COLUMNAS, MSG_ERROR_PERMISOS, MSG_ERROR_DESVINCULAR_DB,
   MSG_SIN_REGISTRO, MSG_ADMIN_INESPERADO}

\* the values callers pass as estudianteId
IdsPresentables == {"", " ", "E1", "BDI-002", "E9"}
\* the values an administrator passes in the account life cycle: a student by
\* id, a student by id_becado_interno
IdsCiclo == {"E1", "BDI-002"}
\* the administrator's identity
CallersCiclo == {2}
\* the two admin actions on a student account
OpsAdmin == {"reset", "desvincular"}

\* !estudianteId || estudianteId.trim() === ''
IdEnBlanco(estudianteId) == estudianteId \in {"", " "}

\* .or(`id.eq.X,id_becado_interno.eq.X`): the rows the filter matches
FilasConId(tabla, estudianteId) ==
  {e \in DOMAIN tabla : tabla[e].id = estudianteId
                        \/ tabla[e].id_becado_interno = estudianteId}

\* mutant of datosReset: the payload without the two document URLs
datosResetSinUrls ==
  [c \in CamposReset \ {"url_carnet_digital", "url_expediente_digital"} |-> NULL]

\* the payload of the update of resetearPerfilEstudiante
datosReset == [c \in CamposReset |-> NULL]

\* mutant of randomUUID: a generator that returns the first token again
randomUUIDRepetido == nextToken - TokensEmitidos - 1

\* crypto.randomUUID(): a value no earlier call returned
randomUUID == nextToken

\* mutant of datosDesvinculacion: the link to the identity left in the row
datosDesvinculacionSinAuth(nuevoOnboardingToken) ==
  [ha_completado_onboarding |-> FALSE,
   onboarding_token |-> nuevoOnboardingToken]

\* the payload of the update of desvincularCuentaEstudiante
datosDesvinculacion(nuevoOnboardingToken) ==
  [auth_user_id |-> NULL_ID,
   ha_completado_onboarding |-> FALSE,
   onboarding_token |-> nuevoOnboardingToken]

\* the table after update(datos).eq('id', id)
TablaActualizada(tabla, id, datos) ==
  [e \in DOMAIN tabla |->
     IF tabla[e].id = id THEN Actualizar(tabla[e], datos) ELSE tabla[e]]

\* mutant of ResultadoBorradoFallido: the error of deleteUser swallowed
ResultadoBorradoIgnorado(lanzado) == Exito(MSG_DESVINCULADO_OK)

\* the result of desvincularCuentaEstudiante when deleteUser did not go through
ResultadoBorradoFallido(lanzado) ==
  Fallo(IF lanzado THEN MSG_PARCIAL_AUTH_INESPERADO ELSE MSG_PARCIAL_AUTH)

\* the admin call in slot s returns
AdmTerminar(s, locals, res) ==
  /\ adm' = [adm EXCEPT ![s] = AdmIdle]
  /\ retorno' = [SinRetorno EXCEPT !.op = locals.op, !.res = res,
                                   !.authUserId = locals.authUserId,
                                   !.idNumero = locals.idNumero,
                                   !.nuevoToken = locals.nuevoToken,
                                   !.caller = locals.caller,
                                   !.consulta = locals.consulta]

\* mutant of EsAdmin: the error of the lookup not read
EsAdminSinError(consulta, caller) == caller \in administrativos

\* isAdmin = !adminError && adminData !== null, for a lookup that returned
EsAdmin(consulta, caller) == consulta = "ok" /\ caller \in administrativos

\* PASO 1-3 of both admin actions: the input check, auth.getUser and the
\* lookup in usuarios_administrativos. ops are the actions called, ids the
\* values passed as estudianteId, callers the identities that call (NULL_ID is
\* a caller without a session; a deleted identity has no session)
AdminIniciar(s, ops, ids, callers) ==
  /\ adm[s].pc = "idle"
  /\ \E op \in ops, estudianteId \in ids,
        caller \in callers \cap ({NULL_ID} \cup Ids(authUsers)) :
       LET locals == [AdmIdle EXCEPT !.op = op, !.caller = caller] IN
       IF IdEnBlanco(estudianteId)
       THEN AdmTerminar(s, locals, Fallo(MSG_ID_INVALIDO))
       ELSE IF caller = NULL_ID
       THEN AdmTerminar(s, locals, Fallo(MSG_NO_AUTENTICADO))
       ELSE \E consulta \in {"ok", "error", "throw"} :
              LET consultado == [locals EXCEPT !.consulta = consulta] IN
              IF consulta = "throw"
              THEN AdmTerminar(s, consultado, Fallo(MSG_ADMIN_INESPERADO))
              ELSE IF ~EsAdmin(consulta, caller)
              THEN AdmTerminar(s, consultado, Fallo(MSG_SIN_PERMISOS))
              ELSE /\ adm' = [adm EXCEPT ![s] =
                                [consultado EXCEPT !.pc = "buscar",
                                                   !.estudianteId = estudianteId]]
                   /\ retorno' = SinRetorno
  /\ UNCHANGED <<estudiantes, authUsers, administrativos, nextUid, nextToken, act, exitos>>

\* PASO 4: the select of the student row; desvincular also reads auth_user_id
AdminBuscar(s) ==
  /\ adm[s].pc = "buscar"
  /\ \E r \in {"ok", "error", "throw"} :
       LET filas == FilasConId(estudiantes, adm[s].estudianteId) IN
       CASE r = "ok" /\ Cardinality(filas) = 1 ->
              LET estudiante == estudiantes[CHOOSE e \in filas : TRUE] IN
              /\ adm' = [adm EXCEPT ![s].pc = "update",
                                    ![s].estudianteId = NULL,
                                    ![s].idNumero = estudiante.id,
                                    ![s].authUserId =
                                       IF adm[s].op = "desvincular"
                                       THEN estudiante.auth_user_id ELSE NULL_ID]
              /\ retorno' = SinRetorno
         [] r = "throw" -> AdmTerminar(s, adm[s], Fallo(MSG_ADMIN_INESPERADO))
         [] OTHER -> AdmTerminar(s, adm[s], Fallo(MSG_NO_ENCONTRADO))
  /\ UNCHANGED <<estudiantes, authUsers, administrativos, nextUid, nextToken, act, exitos>>

\* the outcomes of an update of estudiantes through the caller's client
ResultadosUpdate == {"ok", "vacio", "columna", "permiso", "otro", "throw"}

\* what both admin actions return when the update did not change a row
ResultadoUpdateFallido(op, r) ==
  CASE r = "vacio" -> Fallo(MSG_SIN_REGISTRO)
    [] r = "throw" -> Fallo(MSG_ADMIN_INESPERADO)
    [] OTHER -> Fallo(MensajeErrorUpdate(op, r))

\* PASO 5-7 of resetearPerfilEstudiante: update(datosReset).eq('id', id).select()
ResetUpdate(s) ==
  /\ adm[s].pc = "update"
  /\ adm[s].op = "reset"
  /\ \E r \in ResultadosUpdate :
       IF r = "ok"
       THEN /\ estudiantes' = TablaActualizada(estudiantes, adm[s].idNumero, datosReset)
            /\ AdmTerminar(s, adm[s], Exito(MSG_RESET_OK))
       ELSE /\ AdmTerminar(s, adm[s], ResultadoUpdateFallido("reset", r))
            /\ UNCHANGED estudiantes
  /\ UNCHANGED <<authUsers, administrativos, nextUid, nextToken, act, exitos>>

\* mutant of UpdateLogrado: the rows the update returned not counted
UpdateLogradoSinFilas(r) == r \in {"ok", "vacio"}

\* the update went through: no updateError, and updateData has a row
UpdateLogrado(r) == r = "ok"

\* PASO 5 of desvincularCuentaEstudiante: randomUUID, then
\* update(datosDesvinculacion).eq('id', id).select() (max bounds the tokens
\* issued in one behaviour); the identity is deleted next only if the update
\* went through
DesvincularUpdate(s, max) ==
  /\ adm[s].pc = "update"
  /\ adm[s].op = "desvincular"
  /\ \E r \in ResultadosUpdate :
       LET nuevoOnboardingToken == randomUUID IN
       /\ estudiantes' =
            IF r = "ok"
            THEN TablaActualizada(estudiantes, adm[s].idNumero,
                                  datosDesvinculacion(nuevoOnboardingToken))
            ELSE estudiantes
       /\ IF UpdateLogrado(r)
          THEN /\ TokensEmitidos < max
               /\ nextToken' = nextToken + 1
               /\ IF adm[s].authUserId # NULL_ID
                  THEN /\ adm' = [adm EXCEPT ![s].pc = "borrar",
                                             ![s].nuevoToken = nuevoOnboardingToken]
                       /\ retorno' = SinRetorno
                  ELSE AdmTerminar(s, [adm[s] EXCEPT !.nuevoToken = nuevoOnboardingToken],
                                   Exito(MSG_DESVINCULADO_OK))
          ELSE /\ AdmTerminar(s, adm[s], ResultadoUpdateFallido("desvincular", r))
               /\ UNCHANGED nextToken
  /\ UNCHANGED <<authUsers, administrativos, nextUid, act, exitos>>

\* PASO 6 of desvincularCuentaEstudiante: auth.admin.deleteUser(authUserId);
\* deleting an identity that no longer exists is an error of the store
DesvincularBorrar(s) ==
  /\ adm[s].pc = "borrar"
  /\ \E r \in {"ok", "error", "throw"} :
       CASE r = "ok" ->
              /\ adm[s].authUserId \in Ids(authUsers)
              /\ authUsers' = {u \in authUsers : u.id # adm[s].authUserId}
              /\ AdmTerminar(s, adm[s], Exito(MSG_DESVINCULADO_OK))
         [] OTHER ->
              /\ authUsers' = authUsers
              /\ AdmTerminar(s, adm[s], ResultadoBorradoFallido(r = "throw"))
  /\ UNCHANGED <<estudiantes, administrativos, nextUid, nextToken, act, exitos>>

\* the account operations leave the gate and the approval workflow alone; the
\* answer of the gate is that of the last step only
Quietos ==
  /\ mw' = mw /\ salida' = SinSalida
  /\ UNCHANGED varsSolicitudes
  /\ UNCHANGED varsPortal

\* the account life cycle: one activation at a time next to one admin call
Next ==
  \/ \E a \in {"a1"} : ActivarValidar(a, PasswordsCiclo, CorreosCiclo) /\ Quietos
  \/ \E a \in {"a1"} : ActivarCrearUsuario(a, MaxUsuarios) /\ Quietos
  \/ \E a \in {"a1"} : ActivarVincular(a) /\ Quietos
  \/ \E a \in {"a1"} : ActivarCompensar(a) /\ Quietos
  \/ \E a \in {"a1"} : ActivarCorreo(a) /\ Quietos
  \/ \E a \in {"a1"} : ActivarLogin(a) /\ Quietos
  \/ \E a \in {"a1"} : ActivarRol(a) /\ Quietos
  \/ \E s \in {"m1"} : AdminIniciar(s, OpsAdmin, IdsCiclo, CallersCiclo) /\ Quietos
  \/ \E s \in {"m1"} : AdminBuscar(s) /\ Quietos
  \/ \E s \in {"m1"} : ResetUpdate(s) /\ Quietos
  \/ \E s \in {"m1"} : DesvincularUpdate(s, MaxTokens) /\ Quietos
  \/ \E s \in {"m1"} : DesvincularBorrar(s) /\ Quietos

Spec == Init /\ [][Next]_vars

\* concurrent activations: the calls of activarCuenta race, no admin call runs
NextCarrera ==
  \/ \E a \in ActSlots : ActivarValidar(a, Passwords, Correos) /\ Quietos
  \/ \E a \in ActSlots : ActivarCrearUsuario(a, MaxUsuariosCarrera) /\ Quietos
  \/ \E a \in ActSlots : ActivarVincular(a) /\ Quietos
  \/ \E a \in ActSlots : ActivarCompensar(a) /\ Quietos
  \/ \E a \in ActSlots : ActivarCorreo(a) /\ Quietos
  \/ \E a \in ActSlots : ActivarLogin(a) /\ Quietos
  \/ \E a \in ActSlots : ActivarRol(a) /\ Quietos

SpecCarrera == Init /\ [][NextCarrera]_vars

\* ------------------------------------------------ access gate: middleware
\* String.prototype.startsWith
startsWith(s, prefijo) ==
  Len(s) >= Len(prefijo) /\ SubSeq(s, 1, Len(prefijo)) = prefijo

publicPaths == {P_ACTIVAR, P_AUTH \o P_CALLBACK, P_LOGIN, P_UNAUTHORIZED}

\* mutant of isPublicPath: the list without the test of the root
isPublicPathSinRaiz(pathname) ==
  \E path \in publicPaths : startsWith(pathname, path)

\* publicPaths.some((path) => pathname.startsWith(path)) || pathname === '/'
isPublicPath(pathname) ==
  (\E path \in publicPaths : startsWith(pathname, path)) \/ pathname = P_RAIZ

isAdminRoute(pathname) == startsWith(pathname, P_ADMIN)
isDashboardRoute(pathname) == startsWith(pathname, P_DASHBOARD)
isRootOrAuth(pathname) ==
  pathname = P_RAIZ \/ startsWith(pathname, P_LOGIN) \/ startsWith(pathname, P_AUTH)

\* mutant of ReglaSinUsuario: the request of an anonymous caller let through
ReglaSinUsuarioAbierta(pathname) == Servir

\* PASO 1, if (!user)
ReglaSinUsuario(pathname) ==
  IF ~isPublicPath(pathname) /\ pathname # P_LOGIN
  THEN Redirigir(P_LOGIN) ELSE Servir

\* mutant of ReglasAdmin: an administrator let through everywhere
ReglasAdminAbiertas(pathname) == Servir

\* PASO 4, if (isAdmin)
ReglasAdmin(pathname) ==
  IF isDashboardRoute(pathname) \/ isRootOrAuth(pathname)
  THEN IF pathname # P_ADMIN \o P_DASHBOARD
       THEN Redirigir(P_ADMIN \o P_DASHBOARD) ELSE Servir
  ELSE IF isAdminRoute(pathname) THEN Servir
  ELSE IF pathname # P_ADMIN \o P_DASHBOARD
       THEN Redirigir(P_ADMIN \o P_DASHBOARD) ELSE Servir

\* mutant of ReglasEstudiante: the admin area open to every session
ReglasEstudianteAbiertas(pathname) ==
  IF isRootOrAuth(pathname) /\ ~isAdminRoute(pathname) /\ ~isDashboardRoute(pathname)
  THEN Redirigir(P_DASHBOARD) ELSE Servir

\* PASO 4, the caller is not an administrator
ReglasEstudiante(pathname) ==
  IF isAdminRoute(pathname) THEN Redirigir(P_DASHBOARD)
  ELSE IF isDashboardRoute(pathname) THEN Servir
  ELSE IF isRootOrAuth(pathname) THEN Redirigir(P_DASHBOARD)
  ELSE Servir

\* the catch block of the role lookup
ReglasCatch(pathname) ==
  IF isAdminRoute(pathname) THEN Redirigir(P_DASHBOARD) ELSE Servir

\* the middleware answers: the request is over unless the page of /dashboard,
\* which makes its own checks, is the one served
Responder(pathname, user, consulta, res) ==
  /\ salida' = [op |-> "middleware", pathname |-> pathname, user |-> user,
                consulta |-> consulta, res |-> res]
  /\ mw' = IF res = Servir /\ pathname = P_DASHBOARD
           THEN [pc |-> "pagina", pathname |-> pathname, user |-> user]
           ELSE MwIdle

\* updateSession, the public routes and PASO 1; user is the identity of the
\* session, NULL_ID without one
MiddlewareSesion ==
  /\ mw.pc = "idle"
  /\ \E pathname \in Pathnames, user \in {NULL_ID} \cup Ids(authUsers) :
       IF isPublicPath(pathname) THEN Responder(pathname, user, NULL, Servir)
       ELSE IF user = NULL_ID
       THEN Responder(pathname, user, NULL, ReglaSinUsuario(pathname))
       ELSE /\ mw' = [pc |-> "rol", pathname |-> pathname, user |-> user]
            /\ salida' = SinSalida
  /\ UNCHANGED varsCuenta
  /\ UNCHANGED varsSolicitudes
  /\ UNCHANGED varsPortal

\* PASO 3 and 4 for a caller with a session: the rules by the outcome r of
\* the lookup in usuarios_administrativos
ReglasConSesion(pathname, user, r) ==
  LET isAdmin == r = "ok" /\ user \in administrativos IN
  IF r = "throw" THEN ReglasCatch(pathname)
  ELSE IF isAdmin THEN ReglasAdmin(pathname)
  ELSE ReglasEstudiante(pathname)

\* the answer of the middleware to a request, by the outcome r of the lookup
middleware(pathname, user, r) ==
  IF isPublicPath(pathname) THEN Servir
  ELSE IF user = NULL_ID THEN ReglaSinUsuario(pathname)
  ELSE ReglasConSesion(pathname, user, r)

\* PASO 3 and 4: the lookup in usuarios_administrativos and the rules
MiddlewareRol ==
  /\ mw.pc = "rol"
  /\ \E r \in {"ok", "error", "throw"} :
       Responder(mw.pathname, mw.user, r, ReglasConSesion(mw.pathname, mw.user, r))
  /\ UNCHANGED varsCuenta
  /\ UNCHANGED varsSolicitudes
  /\ UNCHANGED varsPortal

\* .eq('auth_user_id', user.id): the rows of estudiantes of an identity
FilasDeUsuario(tabla, user) ==
  {e \in DOMAIN tabla : user # NULL_ID /\ tabla[e].auth_user_id = user}

\* DashboardPage up to PASO 3: who gets the page and who is sent away.
\* errorBasico is the error of the first select of estudiantes, adminError the
\* one of the lookup in usuarios_administrativos.
DashboardPageRes(user, errorBasico, adminError) ==
  IF user = NULL_ID THEN Redirigir(P_LOGIN)
  ELSE LET filas == FilasDeUsuario(estudiantes, user)
           critico == errorBasico = "otro"
           estudiante == errorBasico = "none" /\ Cardinality(filas) = 1
           isAdmin == ~adminError /\ user \in administrativos
       IN IF ~estudiante \/ critico
          THEN IF isAdmin THEN Redirigir(P_ADMIN \o P_DASHBOARD)
               ELSE Redirigir(P_UNAUTHORIZED)
          ELSE Servir

\* the page of /dashboard renders after the middleware let the request pass;
\* a session whose identity is gone has no user
DashboardPage ==
  /\ mw.pc = "pagina"
  /\ \E errorBasico \in {"none", "PGRST116", "otro"}, adminError \in BOOLEAN :
       LET user == IF mw.user \in Ids(authUsers) THEN mw.user ELSE NULL_ID IN
       salida' = [op |-> "DashboardPage", pathname |-> mw.pathname, user |-> mw.user,
                  consulta |-> errorBasico,
                  res |-> DashboardPageRes(user, errorBasico, adminError)]
  /\ mw' = MwIdle
  /\ UNCHANGED varsCuenta
  /\ UNCHANGED varsSolicitudes
  /\ UNCHANGED varsPortal

\* the gate next to an administrator who resets and unlinks accounts
NextGate ==
  \/ MiddlewareSesion
  \/ MiddlewareRol
  \/ DashboardPage
  \/ \E s \in {"m1"} : AdminIniciar(s, OpsAdmin, IdsCiclo, CallersCiclo) /\ Quietos
  \/ \E s \in {"m1"} : AdminBuscar(s) /\ Quietos
  \/ \E s \in {"m1"} : ResetUpdate(s) /\ Quietos
  \/ \E s \in {"m1"} : DesvincularUpdate(s, MaxTokens) /\ Quietos
  \/ \E s \in {"m1"} : DesvincularBorrar(s) /\ Quietos

SpecGate == Init /\ [][NextGate]_vars

\* ------------------------------------------------------ approval workflow
\* number of rows aprobarSolicitud may insert in one behaviour
MaxHoras == 2

MSG_SOL_ID_INVALIDO == "ID de solicitud invalido."
MSG_SOL_NO_ENCONTRADA == "No se pudo encontrar la solicitud."
MSG_SOL_PROCESADA == "Esta solicitud ya ha sido procesada."
MSG_SOL_SIN_ESTUDIANTE == "No se pudo encontrar el estudiante asociado a esta solicitud."
MSG_SOL_SIN_ID_INTERNO == "El estudiante no tiene un ID de becado interno asignado."
MSG_SOL_SIN_NOMBRE == "El estudiante no tiene un nombre completo asignado."
MSG_SOL_HORAS == "La cantidad de horas debe ser un numero mayor a 0."
MSG_SOL_ERROR_INSERT == "Error al registrar las horas de voluntariado. Por favor, intenta nuevamente."
MSG_SOL_PARCIAL == "Las horas se registraron, pero hubo un error al actualizar el estado de la solicitud."
MSG_SOL_APROBADA == "Solicitud aprobada y horas registradas correctamente."
MSG_SOL_ERROR_RECHAZAR == "Error al rechazar la solicitud. Por favor, intenta nuevamente."
MSG_SOL_RECHAZADA == "Solicitud rechazada correctamente."

\* the values callers pass as solicitudId
IdsSolicitud == {"", "undefined", "S1", "S2", "S9"}
\* the values callers pass as horasAprobadas
HorasAprobadasPosibles == {UNDEFINED, NaN, Numero(0), Numero(5)}
\* the calls that race are made for one request, without an override
IdsCarrera == {"S1"}
HorasCarrera == {UNDEFINED}

\* !solicitudId || solicitudId === 'undefined' || solicitudId === undefined
IdSolicitudInvalido(solicitudId) == solicitudId \in {"", "undefined"}

\* String.prototype.trim on the names of the model
trim(x) == IF x \in {" ", "   "} THEN "" ELSE x

\* !estudiante.id_becado_interno
SinIdInterno(estudiante) == EsFalsy(estudiante.id_becado_interno)

\* !estudiante.nombre_completo_becado || estudiante.nombre_completo_becado.trim() === ''
SinNombre(estudiante) ==
  \/ EsFalsy(estudiante.nombre_completo_becado)
  \/ trim(estudiante.nombre_completo_becado) = ""

\* mutant of cantidadHorasFinal: the override of the administrator not read
cantidadHorasSolicitadas(horasAprobadas, cantidad_horas) == cantidad_horas

\* horasAprobadas !== undefined && horasAprobadas !== null ? horasAprobadas
\*                                                           : solicitud.cantidad_horas
cantidadHorasFinal(horasAprobadas, cantidad_horas) ==
  IF horasAprobadas.tipo # "undefined" THEN horasAprobadas ELSE cantidad_horas

\* isNaN(cantidadHorasFinal) || cantidadHorasFinal <= 0
HorasInvalidas(n) == n.nan \/ n.v <= 0

\* mutant of YaProcesada: the test of the status left out
YaProcesadaOmitida(solicitud) == FALSE

\* solicitud.estado === 'aprobado' || solicitud.estado === 'rechazado'
YaProcesada(solicitud) == solicitud.estado \in {"aprobado", "rechazado"}

\* .eq('id', solicitudId): the rows of solicitudes_horas the filter matches
FilasSolicitud(tabla, solicitudId) ==
  {i \in DOMAIN tabla : tabla[i].id = solicitudId}

\* the table after update({ estado }).eq('id', solicitudId)
TablaConEstado(tabla, solicitudId, estado) ==
  [i \in DOMAIN tabla |->
     IF tabla[i].id = solicitudId THEN [tabla[i] EXCEPT !.estado = estado]
     ELSE tabla[i]]

\* the call in slot s returns
SolTerminar(s, locals, consulta, res) ==
  /\ sol' = [sol EXCEPT ![s] = SolIdle]
  /\ retornoSol' = [op |-> locals.op, res |-> res,
                    solicitudId |-> locals.solicitudId, paso |-> locals.pc,
                    consulta |-> consulta, caller |-> locals.caller,
                    horasAprobadas |-> locals.horasAprobadas,
                    cantidad_horas |-> locals.cantidad_horas]

\* rechazarSolicitud: the check of the id and the update of the status; the
\* function never asks who calls (callers are the identities that call it)
RechazarSolicitud(s, ids, callers) ==
  /\ sol[s].pc = "idle"
  /\ \E solicitudId \in ids, caller \in callers :
       LET locals == [SolIdle EXCEPT !.op = "rechazar", !.solicitudId = solicitudId,
                                     !.caller = caller] IN
       IF IdSolicitudInvalido(solicitudId)
       THEN /\ SolTerminar(s, locals, NULL, Fallo(MSG_SOL_ID_INVALIDO))
            /\ UNCHANGED solicitudes
       ELSE \E r \in {"ok", "error", "throw"} :
              CASE r = "ok" ->
                     /\ solicitudes' = TablaConEstado(solicitudes, solicitudId, "rechazado")
                     /\ SolTerminar(s, locals, r, Exito(MSG_SOL_RECHAZADA))
                [] r = "error" ->
                     /\ SolTerminar(s, locals, r, Fallo(MSG_SOL_ERROR_RECHAZAR))
                     /\ UNCHANGED solicitudes
                [] r = "throw" ->
                     /\ SolTerminar(s, locals, r, Fallo(MSG_ERROR_INESPERADO))
                     /\ UNCHANGED solicitudes
  /\ UNCHANGED horas
  /\ UNCHANGED varsCuenta
  /\ UNCHANGED varsGate
  /\ UNCHANGED varsPortal

\* aprobarSolicitud, the check of the id and Paso 1: the select of the request
\* and the test of its status; the function never asks who calls
AprobarBuscar(s, ids, callers) ==
  /\ sol[s].pc = "idle"
  /\ \E solicitudId \in ids, caller \in callers :
       LET locals == [SolIdle EXCEPT !.op = "aprobar", !.solicitudId = solicitudId,
                                     !.caller = caller] IN
       IF IdSolicitudInvalido(solicitudId)
       THEN SolTerminar(s, locals, NULL, Fallo(MSG_SOL_ID_INVALIDO))
       ELSE \E r \in {"ok", "error", "throw"} :
              LET filas == FilasSolicitud(solicitudes, solicitudId) IN
              CASE r = "throw" -> SolTerminar(s, locals, r, Fallo(MSG_ERROR_INESPERADO))
                [] r = "error" \/ Cardinality(filas) # 1 ->
                     SolTerminar(s, locals, r, Fallo(MSG_SOL_NO_ENCONTRADA))
                [] OTHER ->
                     LET solicitud == solicitudes[CHOOSE i \in filas : TRUE] IN
                     IF YaProcesada(solicitud)
                     THEN SolTerminar(s, locals, r, Fallo(MSG_SOL_PROCESADA))
                     ELSE /\ sol' = [sol EXCEPT ![s] =
                                       [locals EXCEPT
                                          !.pc = "estudiante",
                                          !.estudiante_id = solicitud.estudiante_id,
                                          !.cantidad_horas = solicitud.cantidad_horas]]
                          /\ retornoSol' = SinRetornoSol
  /\ UNCHANGED <<solicitudes, horas>>
  /\ UNCHANGED varsCuenta
  /\ UNCHANGED varsGate
  /\ UNCHANGED varsPortal

\* Paso 2 and the check of the hours: the select of the student, the tests of
\* the internal ID and the name, cantidadHorasFinal
AprobarEstudiante(s, horasPosibles) ==
  /\ sol[s].pc = "estudiante"
  /\ \E r \in {"ok", "error", "throw"} :
       LET filas == {e \in DOMAIN estudiantes :
                       estudiantes[e].id = sol[s].estudiante_id} IN
       CASE r = "throw" -> SolTerminar(s, sol[s], r, Fallo(MSG_ERROR_INESPERADO))
         [] r = "error" \/ Cardinality(filas) # 1 ->
              SolTerminar(s, sol[s], r, Fallo(MSG_SOL_SIN_ESTUDIANTE))
         [] OTHER ->
              LET estudiante == estudiantes[CHOOSE e \in filas : TRUE] IN
              IF SinIdInterno(estudiante)
              THEN SolTerminar(s, sol[s], r, Fallo(MSG_SOL_SIN_ID_INTERNO))
              ELSE IF SinNombre(estudiante)
              THEN SolTerminar(s, sol[s], r, Fallo(MSG_SOL_SIN_NOMBRE))
              ELSE \E horasAprobadas \in horasPosibles :
                     LET final == cantidadHorasFinal(horasAprobadas, sol[s].cantidad_horas) IN
                     IF HorasInvalidas(final)
                     THEN SolTerminar(s, [sol[s] EXCEPT !.horasAprobadas = horasAprobadas],
                                      r, Fallo(MSG_SOL_HORAS))
                     ELSE /\ sol' = [sol EXCEPT
                                       ![s].pc = "insertar",
                                       ![s].horasAprobadas = horasAprobadas,
                                       ![s].horasData =
                                          HorasData(estudiante.id_becado_interno,
                                                    estudiante.nombre_completo_becado,
                                                    final)]
                          /\ retornoSol' = SinRetornoSol
  /\ UNCHANGED <<solicitudes, horas>>
  /\ UNCHANGED varsCuenta
  /\ UNCHANGED varsGate
  /\ UNCHANGED varsPortal

\* Paso 3: insert(horasData) into horas_voluntariados
AprobarInsertar(s) ==
  /\ sol[s].pc = "insertar"
  /\ \E r \in {"ok", "error", "throw"} :
       CASE r = "ok" ->
              /\ Cardinality(horas) < MaxHoras
              /\ horas' = horas \cup
                   {[n |-> Cardinality(horas) + 1, solicitud |-> sol[s].solicitudId,
                     data |-> sol[s].horasData]}
              /\ sol' = [sol EXCEPT ![s].pc = "actualizar"]
              /\ retornoSol' = SinRetornoSol
         [] r = "error" ->
              /\ SolTerminar(s, sol[s], r, Fallo(MSG_SOL_ERROR_INSERT))
              /\ UNCHANGED horas
         [] r = "throw" ->
              /\ SolTerminar(s, sol[s], r, Fallo(MSG_ERROR_INESPERADO))
              /\ UNCHANGED horas
  /\ UNCHANGED solicitudes
  /\ UNCHANGED varsCuenta
  /\ UNCHANGED varsGate
  /\ UNCHANGED varsPortal

\* what aprobarSolicitud returns after the update of Paso 4
ResultadoUpdateSolicitud(r) ==
  CASE r = "ok" -> Exito(MSG_SOL_APROBADA)
    [] r = "error" -> Fallo(MSG_SOL_PARCIAL)
    [] OTHER -> Fallo(MSG_ERROR_INESPERADO)

\* Paso 4: update({ estado: 'aprobado' }).eq('id', solicitudId)
AprobarActualizar(s) ==
  /\ sol[s].pc = "actualizar"
  /\ \E r \in {"ok", "error", "throw"} :
       /\ solicitudes' = IF r = "ok"
                         THEN TablaConEstado(solicitudes, sol[s].solicitudId, "aprobado")
                         ELSE solicitudes
       /\ SolTerminar(s, sol[s], r, ResultadoUpdateSolicitud(r))
  /\ UNCHANGED horas
  /\ UNCHANGED varsCuenta
  /\ UNCHANGED varsGate
  /\ UNCHANGED varsPortal

\* an administrator approves and rejects requests, one call at a time
NextSolicitudes ==
  \/ \E s \in {"s1"} : RechazarSolicitud(s, IdsSolicitud, CallersCiclo)
  \/ \E s \in {"s1"} : AprobarBuscar(s, IdsSolicitud, CallersCiclo)
  \/ \E s \in {"s1"} : AprobarEstudiante(s, HorasAprobadasPosibles)
  \/ \E s \in {"s1"} : AprobarInsertar(s)
  \/ \E s \in {"s1"} : AprobarActualizar(s)

SpecSolicitudes == InitImportados /\ [][NextSolicitudes]_vars

\* administrators approve and reject one request at the same time
NextSolicitudesCarrera ==
  \/ \E s \in SolSlots : RechazarSolicitud(s, IdsCarrera, CallersCiclo)
  \/ \E s \in SolSlots : AprobarBuscar(s, IdsCarrera, CallersCiclo)
  \/ \E s \in SolSlots : AprobarEstudiante(s, HorasCarrera)
  \/ \E s \in SolSlots : AprobarInsertar(s)
  \/ \E s \in SolSlots : AprobarActualizar(s)

SpecSolicitudesCarrera == Init /\ [][NextSolicitudesCarrera]_vars

\* --------------------------------------------- admin actions: every caller
\* the callers of the admin actions: nobody (no session), the identity of the
\* student E2, the administrator
CallersTodos == {NULL_ID, 1, 2}

\* the admin actions called by anybody with any estudianteId
NextAutorizacion ==
  \/ \E s \in {"m1"} : AdminIniciar(s, OpsAdmin, IdsPresentables, CallersTodos) /\ Quietos
  \/ \E s \in {"m1"} : AdminBuscar(s) /\ Quietos
  \/ \E s \in {"m1"} : ResetUpdate(s) /\ Quietos
  \/ \E s \in {"m1"} : DesvincularUpdate(s, MaxTokens) /\ Quietos
  \/ \E s \in {"m1"} : DesvincularBorrar(s) /\ Quietos

SpecAutorizacion == Init /\ [][NextAutorizacion]_vars

\* ------------------------------------------- approval workflow: every caller
\* approvals and rejections of one request called by anybody
NextSolicitudesAbierta ==
  \/ \E s \in {"s1"} : RechazarSolicitud(s, IdsCarrera, CallersTodos)
  \/ \E s \in {"s1"} : AprobarBuscar(s, IdsCarrera, CallersTodos)
  \/ \E s \in {"s1"} : AprobarEstudiante(s, HorasCarrera)
  \/ \E s \in {"s1"} : AprobarInsertar(s)
  \/ \E s \in {"s1"} : AprobarActualizar(s)

SpecSolicitudesAbierta == Init /\ [][NextSolicitudesAbierta]_vars

\* ------------------------------------------ student portal: notifications
\* the three actions of a recipient on the notifications
OpsNotif ==
  {"marcarNotificacionesComoLeidas", "deleteUnaNotificacion",
   "deleteAllMisNotificaciones"}

\* the notification ids a caller presents: the caller's, another
\* recipient's, one that does not exist
IdsNotificacion == {1, 2, 3, 9}

\* .eq('receptor_id', user.id).eq('leido', false)
FiltroMarcar(n, user) == n.receptor_id = user /\ n.leido = FALSE

\* mutant of FiltroBorrarUna: the recipient not compared
FiltroBorrarUnaSinReceptor(n, user, notificationId) == n.id = notificationId

\* .eq('id', notificationId).eq('receptor_id', user.id)
FiltroBorrarUna(n, user, notificationId) ==
  n.id = notificationId /\ n.receptor_id = user

\* .eq('receptor_id', user.id)
FiltroBorrarTodas(n, user) == n.receptor_id = user

\* the table after the statement of the action
SentenciaNotif(tabla, op, user, notificationId) ==
  CASE op = "marcarNotificacionesComoLeidas" ->
         {IF FiltroMarcar(n, user) THEN [n EXCEPT !.leido = TRUE] ELSE n : n \in tabla}
    [] op = "deleteUnaNotificacion" ->
         {n \in tabla : ~FiltroBorrarUna(n, user, notificationId)}
    [] OTHER ->
         {n \in tabla : ~FiltroBorrarTodas(n, user)}

NotifTerminar(locals, success) ==
  /\ notif' = NotifIdle
  /\ retornoNotif' = [op |-> locals.op, success |-> success, user |-> locals.user,
                      notificationId |-> locals.notificationId]

\* the call and its auth.getUser(): no user, an error or a throw end it
NotifIniciar(callers) ==
  /\ notif.pc = "idle"
  /\ \E op \in OpsNotif, caller \in callers \cap ({NULL_ID} \cup Ids(authUsers)),
        notificationId \in IdsNotificacion, sesion \in {"ok", "error", "throw"} :
       LET locals == [NotifIdle EXCEPT
                        !.op = op,
                        !.notificationId =
                           IF op = "deleteUnaNotificacion" THEN notificationId
                           ELSE NULL_ID] IN
       IF sesion # "ok" \/ caller = NULL_ID THEN NotifTerminar(locals, FALSE)
       ELSE /\ notif' = [locals EXCEPT !.pc = "sentencia", !.user = caller]
            /\ retornoNotif' = SinRetornoNotif
  /\ UNCHANGED <<notificaciones, perfil, retornoPerfil, nav>>
  /\ UNCHANGED varsCuenta
  /\ UNCHANGED varsGate
  /\ UNCHANGED varsSolicitudes

\* the update or the delete of the action
NotifSentencia ==
  /\ notif.pc = "sentencia"
  /\ \E r \in {"ok", "error", "throw"} :
       IF r = "ok"
       THEN /\ notificaciones' =
                 SentenciaNotif(notificaciones, notif.op, notif.user, notif.notificationId)
            /\ NotifTerminar(notif, TRUE)
       ELSE /\ UNCHANGED notificaciones
            /\ NotifTerminar(notif, FALSE)
  /\ UNCHANGED <<perfil, retornoPerfil, nav>>
  /\ UNCHANGED varsCuenta
  /\ UNCHANGED varsGate
  /\ UNCHANGED varsSolicitudes

NextNotificaciones ==
  \/ NotifIniciar(CallersTodos)
  \/ NotifSentencia

SpecNotificaciones == Init /\ [][NextNotificaciones]_vars

\* --------------------------------------------- account: unlinks that race
\* the student the racing unlinks are called for: E2, by its internal ID
IdsDesvincular == {"BDI-002"}
\* the one email the re-activation presents
CorreosReactivar == {"otro@x.com"}

\* two unlinks of the same student next to one activation
NextDesvincularCarrera ==
  \/ \E a \in {"a1"} : ActivarValidar(a, PasswordsCiclo, CorreosReactivar) /\ Quietos
  \/ \E a \in {"a1"} : ActivarCrearUsuario(a, MaxUsuarios) /\ Quietos
  \/ \E a \in {"a1"} : ActivarVincular(a) /\ Quietos
  \/ \E a \in {"a1"} : ActivarCompensar(a) /\ Quietos
  \/ \E a \in {"a1"} : ActivarCorreo(a) /\ Quietos
  \/ \E a \in {"a1"} : ActivarLogin(a) /\ Quietos
  \/ \E a \in {"a1"} : ActivarRol(a) /\ Quietos
  \/ \E s \in AdmSlots : AdminIniciar(s, {"desvincular"}, IdsDesvincular, CallersCiclo) /\ Quietos
  \/ \E s \in AdmSlots : AdminBuscar(s) /\ Quietos
  \/ \E s \in AdmSlots : DesvincularUpdate(s, MaxTokensCarrera) /\ Quietos
  \/ \E s \in AdmSlots : DesvincularBorrar(s) /\ Quietos

SpecDesvincularCarrera == Init /\ [][NextDesvincularCarrera]_vars

\* ------------------------------------------------ student portal: the wizard
MSG_PERFIL_VALIDACION == "Error de validacion: "
MSG_PERFIL_SIN_DATOS == "Error al obtener los datos del estudiante. Por favor, contacta al administrador."
MSG_PERFIL_DATOS_CRITICOS == "Faltan datos criticos del estudiante. Por favor, contacta al administrador."
MSG_PERFIL_ERROR == "Error al guardar el perfil"
MSG_PERFIL_SIN_REGISTRO == "Error: No se encontro el registro del estudiante. Por favor, contacta al administrador."
MSG_PERFIL_OK == "Perfil guardado exitosamente. Tu carnet y expediente digital han sido generados."
MSG_PERFIL_ADVERTENCIA == "Perfil guardado exitosamente. Advertencia: "

\* the names of the emergency contact the wizard submits
NombresEmergencia == {"", "Al", "   ", "Eva Sol"}

\* String.prototype.length on the names of the model
Largo(x) ==
  CASE x = "" -> 0
    [] x = " " -> 1
    [] x = "Al" -> 2
    [] x = "   " -> 3
    [] OTHER -> 7

\* perfilCompletoSchema.safeParse(datos), the field nombre_emergencia:
\* z.string().min(3); the other fields of the form are valid
perfilCompletoSchema(nombre_emergencia) == Largo(nombre_emergencia) >= 3

\* perfilCompleto = nombreEmergencia && nombreEmergencia.trim() !== ''
PerfilCompleto(estudiante) ==
  /\ ~EsFalsy(estudiante.nombre_emergencia)
  /\ trim(estudiante.nombre_emergencia) # ""

UrlsDocumentos == {"url_carnet_digital", "url_expediente_digital"}

\* the payload of PASO 3 of guardarPerfilCompleto: the fields of the form,
\* without the URLs of the documents
datosUpdate(nombre_emergencia) ==
  [c \in CamposReset \ UrlsDocumentos |->
     CASE c = "nombre_emergencia" -> nombre_emergencia
       [] c = "detalle_discapacidad" -> NULL
       [] OTHER -> "v"]

\* the payload of PASO 6: the URL of each document, 'PENDIENTE' for a
\* document that was not generated
urlsUpdate(generados) ==
  [c \in UrlsDocumentos |-> IF generados THEN "v" ELSE "PENDIENTE"]

\* the table after update(datos).eq('auth_user_id', user)
TablaDeUsuario(tabla, user, datos) ==
  [e \in DOMAIN tabla |->
     IF e \in FilasDeUsuario(tabla, user) THEN Actualizar(tabla[e], datos)
     ELSE tabla[e]]

PerfilTerminar(locals, res) ==
  /\ perfil' = PerfilIdle
  /\ retornoPerfil' = [op |-> "guardarPerfilCompleto", res |-> res,
                       user |-> locals.user, escrito |-> locals.escrito]

\* the steps of guardarPerfilCompleto leave everything else alone
PerfilQuietos ==
  /\ UNCHANGED <<notificaciones, notif, retornoNotif, nav>>
  /\ UNCHANGED <<authUsers, administrativos, nextUid, nextToken, act, adm,
                 retorno, exitos>>
  /\ UNCHANGED varsGate
  /\ UNCHANGED varsSolicitudes

\* PASO 1 and 2: auth.getUser and the validation of the form
GuardarIniciar(callers, nombres) ==
  /\ perfil.pc = "idle"
  /\ \E caller \in callers \cap ({NULL_ID} \cup Ids(authUsers)),
        nombre_emergencia \in nombres, sesion \in {"ok", "error", "throw"} :
       LET locals == [PerfilIdle EXCEPT !.nombre_emergencia = nombre_emergencia] IN
       IF sesion = "throw" THEN PerfilTerminar(locals, Fallo(MSG_ADMIN_INESPERADO))
       ELSE IF sesion = "error" \/ caller = NULL_ID
       THEN PerfilTerminar(locals, Fallo(MSG_NO_AUTENTICADO))
       ELSE IF ~perfilCompletoSchema(nombre_emergencia)
       THEN PerfilTerminar([locals EXCEPT !.user = caller], Fallo(MSG_PERFIL_VALIDACION))
       ELSE /\ perfil' = [locals EXCEPT !.pc = "buscar", !.user = caller]
            /\ retornoPerfil' = SinRetornoPerfil
  /\ UNCHANGED estudiantes
  /\ PerfilQuietos

\* PASO 2.5: the select of the row of the caller, .maybeSingle()
GuardarBuscar ==
  /\ perfil.pc = "buscar"
  /\ \E r \in {"ok", "error", "throw"} :
       LET filas == FilasDeUsuario(estudiantes, perfil.user) IN
       CASE r = "throw" -> PerfilTerminar(perfil, Fallo(MSG_ADMIN_INESPERADO))
         [] r = "error" \/ Cardinality(filas) # 1 ->
              PerfilTerminar(perfil, Fallo(MSG_PERFIL_SIN_DATOS))
         [] OTHER ->
              LET estudianteActual == estudiantes[CHOOSE e \in filas : TRUE] IN
              IF \/ EsFalsy(estudianteActual.id_becado_interno)
                 \/ EsFalsy(estudianteActual.nombre_completo_becado)
              THEN PerfilTerminar(perfil, Fallo(MSG_PERFIL_DATOS_CRITICOS))
              ELSE /\ perfil' = [perfil EXCEPT !.pc = "update"]
                   /\ retornoPerfil' = SinRetornoPerfil
  /\ UNCHANGED estudiantes
  /\ PerfilQuietos

\* PASO 3: update(datosUpdate).eq('auth_user_id', user.id).select(); an update
\* that matches no row returns no error and no row
GuardarUpdate ==
  /\ perfil.pc = "update"
  /\ \E r \in ResultadosUpdate :
       LET filas == FilasDeUsuario(estudiantes, perfil.user) IN
       CASE r = "ok" /\ filas # {} ->
              /\ estudiantes' = TablaDeUsuario(estudiantes, perfil.user,
                                               datosUpdate(perfil.nombre_emergencia))
              /\ perfil' = [perfil EXCEPT !.pc = "documentos", !.escrito = TRUE]
              /\ retornoPerfil' = SinRetornoPerfil
         [] r \in {"ok", "vacio"} ->
              /\ PerfilTerminar(perfil, Fallo(MSG_PERFIL_SIN_REGISTRO))
              /\ UNCHANGED estudiantes
         [] r = "throw" ->
              /\ PerfilTerminar(perfil, Fallo(MSG_ADMIN_INESPERADO))
              /\ UNCHANGED estudiantes
         [] OTHER ->
              /\ PerfilTerminar(perfil, Fallo(MSG_PERFIL_ERROR))
              /\ UNCHANGED estudiantes
  /\ PerfilQuietos

\* PASO 5: Promise.all of generarExpediente and generarCarnet, which catch
\* their own errors and report them in their result
GuardarDocumentos ==
  /\ perfil.pc = "documentos"
  /\ \E generados \in BOOLEAN :
       perfil' = [perfil EXCEPT !.pc = "urls", !.generados = generados]
  /\ retornoPerfil' = SinRetornoPerfil
  /\ UNCHANGED estudiantes
  /\ PerfilQuietos

\* PASO 6 and 7: update(urlsUpdate).eq('auth_user_id', user.id), whose error
\* is logged and not returned; a throw ends in the catch of the function
GuardarUrls ==
  /\ perfil.pc = "urls"
  /\ \E r \in {"ok", "error", "throw"} :
       /\ estudiantes' = IF r = "ok"
                         THEN TablaDeUsuario(estudiantes, perfil.user,
                                             urlsUpdate(perfil.generados))
                         ELSE estudiantes
       /\ PerfilTerminar(perfil,
            IF r = "throw" THEN Fallo(MSG_ADMIN_INESPERADO)
            ELSE IF perfil.generados THEN Exito(MSG_PERFIL_OK)
            ELSE Exito(MSG_PERFIL_ADVERTENCIA))
  /\ PerfilQuietos

\* ------------------------------------------------ student portal: the pages
\* CompletarPerfilPage: who gets the wizard and who is sent away.
\* estudianteError is the error of the select of estudiantes, adminError the
\* one of the lookup in usuarios_administrativos.
CompletarPerfilPageRes(user, estudianteError, adminError) ==
  IF user = NULL_ID THEN Redirigir(P_LOGIN)
  ELSE LET filas == FilasDeUsuario(estudiantes, user)
           isAdmin == ~adminError /\ user \in administrativos
       IN IF estudianteError \/ Cardinality(filas) # 1
          THEN IF isAdmin THEN Redirigir(P_ADMIN \o P_DASHBOARD)
               ELSE Redirigir(P_UNAUTHORIZED)
          ELSE IF PerfilCompleto(estudiantes[CHOOSE e \in filas : TRUE])
          THEN Redirigir(P_DASHBOARD)
          ELSE Servir

\* EstudiantesPage (/admin/estudiantes) up to PASO 2
EstudiantesPageRes(user, adminError) ==
  IF user = NULL_ID THEN Redirigir(P_LOGIN)
  ELSE IF ~(~adminError /\ user \in administrativos) THEN Redirigir(P_DASHBOARD)
  ELSE Servir

\* AdminDashboardPage (/admin/dashboard): only the session is checked
AdminDashboardPageRes(user) ==
  IF user = NULL_ID THEN Redirigir(P_LOGIN) ELSE Servir

\* ------------------------------------------- student portal: navigation
\* the routes whose page makes checks of its own
RutasConPagina ==
  {P_DASHBOARD, P_COMPLETAR, P_ADMIN \o P_ESTUDIANTES, P_ADMIN \o P_DASHBOARD}

\* what the page of a route answers
PaginaRes(ruta, user, errorBasico, adminError) ==
  CASE ruta = P_DASHBOARD -> DashboardPageRes(user, errorBasico, adminError)
    [] ruta = P_COMPLETAR ->
         CompletarPerfilPageRes(user, errorBasico # "none", adminError)
    [] ruta = P_ADMIN \o P_ESTUDIANTES -> EstudiantesPageRes(user, adminError)
    [] ruta = P_ADMIN \o P_DASHBOARD -> AdminDashboardPageRes(user)
    [] OTHER -> Servir

\* the steps of a navigation leave everything else alone
NavQuietos ==
  /\ UNCHANGED <<notificaciones, notif, retornoNotif, perfil, retornoPerfil>>
  /\ UNCHANGED varsCuenta
  /\ UNCHANGED varsGate
  /\ UNCHANGED varsSolicitudes

\* the browser follows a redirect: the next request is for destino
Saltar(destino) ==
  /\ nav.saltos < MaxSaltos
  /\ nav' = [nav EXCEPT !.pc = "gate", !.ruta = destino,
                        !.visitadas = nav.visitadas \cup {nav.ruta},
                        !.repetida = destino \in nav.visitadas \cup {nav.ruta},
                        !.saltos = nav.saltos + 1]

\* the user of a session: an identity that was deleted has none
UsuarioDe(user) == IF user \in Ids(authUsers) THEN user ELSE NULL_ID

\* a caller types a route
NavIniciar(rutas, users) ==
  /\ nav.pc = "idle"
  /\ \E ruta \in rutas, user \in users \cap ({NULL_ID} \cup Ids(authUsers)) :
       nav' = [NavIdle EXCEPT !.pc = "gate", !.user = user, !.ruta = ruta]
  /\ NavQuietos

\* iniciarSesion from /login after signInWithPassword went through: the
\* lookup in usuarios_administrativos, then redirect('/admin/dashboard') or
\* redirect('/dashboard')
NavIniciarSesion(users) ==
  /\ nav.pc = "idle"
  /\ \E user \in users \cap Ids(authUsers), adminError \in BOOLEAN :
       LET isAdmin == ~adminError /\ user \in administrativos IN
       nav' = [NavIdle EXCEPT
                 !.pc = "gate", !.user = user, !.visitadas = {P_LOGIN},
                 !.saltos = 1,
                 !.ruta = IF isAdmin THEN P_ADMIN \o P_DASHBOARD ELSE P_DASHBOARD]
  /\ NavQuietos

\* the middleware answers the request of the navigation
NavMiddleware ==
  /\ nav.pc = "gate"
  /\ \E r \in {"ok", "error", "throw"} :
       LET res == middleware(nav.ruta, UsuarioDe(nav.user), r) IN
       IF res = Servir
       THEN nav' = [nav EXCEPT !.pc = IF nav.ruta \in RutasConPagina
                                      THEN "pagina" ELSE "servida"]
       ELSE Saltar(res.destino)
  /\ NavQuietos

\* the page of the route renders, or redirects
NavPagina ==
  /\ nav.pc = "pagina"
  /\ \E errorBasico \in {"none", "PGRST116", "otro"}, adminError \in BOOLEAN :
       LET res == PaginaRes(nav.ruta, UsuarioDe(nav.user), errorBasico, adminError) IN
       IF res = Servir THEN nav' = [nav EXCEPT !.pc = "servida"]
       ELSE Saltar(res.destino)
  /\ NavQuietos

\* ------------------------------------- student portal: reset and the wizard
\* an administrator resets the profile of E2 while the student of E2 (and
\* callers who are not students) submit the wizard and open the portal
NextPerfil ==
  \/ \E s \in {"m1"} : AdminIniciar(s, {"reset"}, IdsDesvincular, CallersCiclo) /\ Quietos
  \/ \E s \in {"m1"} : AdminBuscar(s) /\ Quietos
  \/ \E s \in {"m1"} : ResetUpdate(s) /\ Quietos
  \/ GuardarIniciar(CallersTodos, NombresEmergencia)
  \/ GuardarBuscar
  \/ GuardarUpdate
  \/ GuardarDocumentos
  \/ GuardarUrls
  \/ NavIniciar({P_COMPLETAR, P_DASHBOARD}, {1})
  \/ NavMiddleware
  \/ NavPagina

SpecPerfil == Init /\ [][NextPerfil]_vars

\* ------------------------------------------- portal: navigation of anybody
\* an administrator unlinks the account of E2 (an unlink whose deletion fails
\* leaves an identity with neither a Student row nor an Admin row); then
\* anybody types any route or signs in, and the tables stay as they are while
\* the browser follows the redirects
NextNavegacion ==
  \/ NavIniciar(Pathnames, CallersTodos)
  \/ NavIniciarSesion(CallersTodos)
  \/ NavMiddleware
  \/ NavPagina
  \/ \E s \in {"m1"} :
       nav.pc = "idle"
         /\ AdminIniciar(s, {"desvincular"}, IdsDesvincular, CallersCiclo) /\ Quietos
  \/ \E s \in {"m1"} : nav.pc = "idle" /\ AdminBuscar(s) /\ Quietos
  \/ \E s \in {"m1"} : nav.pc = "idle" /\ DesvincularUpdate(s, MaxTokens) /\ Quietos
  \/ \E s \in {"m1"} : nav.pc = "idle" /\ DesvincularBorrar(s) /\ Quietos

SpecNavegacion == Init /\ [][NextNavegacion]_vars

\* ================================================================ claims
\* the policy as the specification words it: at least 8 characters, one
\* uppercase letter, one lowercase letter and one digit
PoliticaPassword(password) ==
  /\ Len(password) >= 8
  /\ \E i \in 1..Len(password) : password[i] \in Mayusculas
  /\ \E i \in 1..Len(password) : password[i] \in Minusculas
  \* a digit
  /\ \E i \in 1..Len(password) : password[i] \in Digitos

\* the row of the student with the given id
FilaDe(tabla, id) == tabla[CHOOSE e \in DOMAIN tabla : tabla[e].id = id]

\* C1: a token for which an activarCuenta ended in success is never accepted
\* by validarToken again, whatever activations, resets and unlinks follow.
C1_TokenDeUnSoloUso == \A par \in exitos : ~validarToken(par[1]).success

\* C1 witness: E1 was activated with its first token (2) and an unlink has
\* since issued a new token for E1.
C1_Witness ==
  /\ \E par \in exitos : par[1] = 2
  /\ estudiantes["E1"].onboarding_token \notin {NULL_ID, 2}

\* C2 (as claimed): after a successful activarCuenta(T), validarToken(T) fails
\* with the message 'Este token ya ha sido utilizado'.
C2_TokenUsadoDiceYaUtilizado ==
  \A par \in exitos : validarToken(par[1]) = Fallo(MSG_TOKEN_USADO)

\* C3 (as claimed): of the activarCuenta calls made with one token, at most
\* one ends in the success outcome.
C3_UnSoloExitoPorToken == \A p, q \in exitos : p[1] = q[1] => p = q

\* C4 (as claimed): a call whose update of estudiantes matched no row (the
\* token was consumed between validation and update) reports failure and the
\* identity it created has been deleted.
C4_CarreraPerdidaCompensada ==
  (retorno.op = "activarCuenta" /\ retorno.tokenQuemado /\ retorno.filas = 0)
    => (~retorno.res.success /\ retorno.authUserId \notin Ids(authUsers))

\* C5: every row with ha_completado_onboarding = true has onboarding_token =
\* null and auth_user_id != null, in every state of every interleaving of
\* activarCuenta, resetearPerfilEstudiante and desvincularCuentaEstudiante.
C5_InvarianteEstudiante ==
  \A e \in Estudiantes :
    estudiantes[e].ha_completado_onboarding
      => (estudiantes[e].onboarding_token = NULL_ID
          /\ estudiantes[e].auth_user_id # NULL_ID)

\* C5 witness: E1 was activated in this behaviour and E2 was unlinked.
C5_Witness ==
  /\ estudiantes["E1"].ha_completado_onboarding
  /\ estudiantes["E1"].auth_user_id # NULL_ID
  /\ ~estudiantes["E2"].ha_completado_onboarding
  /\ estudiantes["E2"].onboarding_token # NULL_ID

\* C6 (as claimed): a call that returns after its identity was created and
\* before the token was burned (the update of estudiantes failed) returns a
\* failure and the identity it created has been deleted.
C6_CompensacionTrasFalloDelUpdate ==
  (retorno.op = "activarCuenta" /\ retorno.authUserId # NULL_ID
     /\ ~retorno.tokenQuemado)
    => (~retorno.res.success /\ retorno.authUserId \notin Ids(authUsers))

\* C7: once tokenQuemado is set, no step of the call changes estudiantes, the
\* call never returns a failure, a failed or throwing sign-in ends in the
\* redirect to /login, and the role lookup ends in a redirect.
C7_TrasQuemarNuncaFalla ==
  [][\A a \in ActSlots :
       (act[a].tokenQuemado /\ act'[a] # act[a])
         => /\ estudiantes' = estudiantes
            /\ (act'[a].pc = "idle"
                  => /\ retorno'.op = "activarCuenta"
                     /\ retorno'.res.success
                     /\ retorno'.res.message \in Redirecciones
                     /\ (act[a].pc = "login"
                           => retorno'.res = Exito(REDIRECT_LOGIN)))]_vars

\* C7 witness: a call that burned the token of a row returned the redirect to
\* /login, and the row is linked to its identity, onboarded and without token.
C7_Witness ==
  /\ retorno.op = "activarCuenta"
  /\ retorno.tokenQuemado
  /\ retorno.filas = 1
  /\ retorno.res = Exito(REDIRECT_LOGIN)
  /\ \E e \in Estudiantes :
       /\ estudiantes[e].auth_user_id = retorno.authUserId
       /\ estudiantes[e].ha_completado_onboarding
       /\ estudiantes[e].onboarding_token = NULL_ID

\* C8: with a valid token, a call goes on to createUser only with a password
\* that meets the policy, and a call that returns at once although its token
\* is valid had a password that does not meet it: it returns a failure and
\* changes neither the credential store nor estudiantes.
C8_PoliticaDePassword ==
  [][/\ \A a \in ActSlots :
          (act[a].pc = "idle" /\ act'[a].pc = "crear")
            => PoliticaPassword(act'[a].password)
     /\ (act' = act /\ retorno'.op = "activarCuenta"
           /\ validarToken(retorno'.token).success)
          => /\ ~PoliticaPassword(retorno'.password)
             /\ ~retorno'.res.success
             /\ authUsers' = authUsers
             /\ nextUid' = nextUid
             /\ estudiantes' = estudiantes]_vars

\* C8 witness: one call went on with a password of exactly 8 characters while
\* another, with a valid token and a password of 7 characters that has an
\* uppercase letter, a lowercase letter and a digit, was refused.
C8_Witness ==
  /\ \E a \in ActSlots : act[a].pc = "crear" /\ Len(act[a].password) = 8
  /\ retorno.op = "activarCuenta"
  /\ ~retorno.res.success
  /\ Len(retorno.password) = 7
  /\ validarToken(retorno.token).success

\* C9: a successful resetearPerfilEstudiante sets every column of the reset
\* set to null on the targeted row and changes no other column of that row, no
\* other row and nothing in the credential store.
C9_ResetSoloCamposDelWizard ==
  [][(retorno'.op = "reset" /\ retorno'.res.success)
       => /\ authUsers' = authUsers
          /\ \A e \in Estudiantes :
               IF estudiantes[e].id = retorno'.idNumero
               THEN /\ \A c \in CamposReset : estudiantes'[e][c] = NULL
                    /\ \A c \in Columnas \ CamposReset :
                         estudiantes'[e][c] = estudiantes[e][c]
               ELSE estudiantes'[e] = estudiantes[e]]_vars

\* C9 witness: the reset of the activated student E2, whose wizard was filled,
\* succeeded; E2 is still linked and onboarded.
C9_Witness ==
  /\ retorno.op = "reset"
  /\ retorno.res.success
  /\ retorno.idNumero = "E2"
  /\ estudiantes["E2"].nombre_emergencia = NULL
  /\ estudiantes["E2"].url_carnet_digital = NULL
  /\ estudiantes["E2"].auth_user_id # NULL_ID
  /\ estudiantes["E2"].ha_completado_onboarding

\* the results desvincularCuentaEstudiante gives for a full success and for
\* an update of estudiantes that did not go through
ResultadosNoParciales ==
  {Exito(MSG_DESVINCULADO_OK)} \cup {Fallo(m) : m \in MensajesFalloDB}

\* C10: when deleteUser fails after the update of estudiantes, the call returns
\* a failure that is neither the success result nor a result of a failed
\* update, the step leaves estudiantes as the update wrote it, and, unless an
\* activation has consumed the new token in the meantime, the row is unlinked,
\* not onboarded, and validarToken(new token) succeeds when the row has a name
\* and a personal email.
C10_FalloParcialAlDesvincular ==
  [][\A s \in AdmSlots :
       (adm[s].pc = "borrar" /\ adm'[s].pc = "idle" /\ authUsers' = authUsers)
         => /\ retorno'.op = "desvincular"
            /\ ~retorno'.res.success
            /\ retorno'.res \notin ResultadosNoParciales
            /\ estudiantes' = estudiantes
            /\ LET fila == FilaDe(estudiantes', retorno'.idNumero) IN
               fila.onboarding_token = retorno'.nuevoToken
                 => /\ fila.auth_user_id = NULL_ID
                    /\ ~fila.ha_completado_onboarding
                    /\ (~EsFalsy(fila.nombre_completo_becado)
                          /\ ~EsFalsy(fila.correo_personal))
                         => validarTokenEn(estudiantes', retorno'.nuevoToken).success]_vars

\* C10 witness: an unlink returned the partial failure, the identity it could
\* not delete still exists, and the token it issued is valid.
C10_Witness ==
  /\ retorno.op = "desvincular"
  /\ retorno.res = Fallo(MSG_PARCIAL_AUTH)
  /\ retorno.authUserId \in Ids(authUsers)
  /\ FilaDe(estudiantes, retorno.idNumero).onboarding_token = retorno.nuevoToken
  /\ validarToken(retorno.nuevoToken).success

\* ------------------------------------------------------ access gate claims
\* the route classes as the policy table words them
EmpiezaCon(pathname, p) ==
  Len(p) <= Len(pathname) /\ \A i \in 1..Len(p) : pathname[i] = p[i]
RutaPublica(pathname) ==
  \/ pathname = P_RAIZ
  \/ \E p \in {P_LOGIN, P_ACTIVAR, P_AUTH \o P_CALLBACK, P_UNAUTHORIZED} :
       EmpiezaCon(pathname, p)
BajoAdmin(pathname) == EmpiezaCon(pathname, P_ADMIN)
BajoDashboard(pathname) == EmpiezaCon(pathname, P_DASHBOARD)
BajoAuth(pathname) == EmpiezaCon(pathname, P_AUTH)
AreaEstudiante(pathname) ==
  BajoDashboard(pathname) \/ pathname \in {P_HORAS, P_COMPLETAR}

\* the gate has just answered a request
GateRespondio == salida.op = "middleware"
\* ... of a caller with a session and a row in usuarios_administrativos
LlamaAdmin == GateRespondio /\ salida.user \in administrativos
\* ... of a caller with a session and no row in usuarios_administrativos
LlamaNoAdmin ==
  GateRespondio /\ salida.user # NULL_ID /\ salida.user \notin administrativos

\* C11: a request to an explicitly public route is served without redirect,
\* whoever the caller is (anonymous, student, administrator).
C11_RutasPublicasSiemprePasan ==
  (GateRespondio /\ RutaPublica(salida.pathname)) => salida.res = Servir

\* C11 witness: the administrator asked for / and was served.
C11_Witness ==
  /\ GateRespondio
  /\ salida.user \in administrativos
  /\ salida.pathname = P_RAIZ
  /\ salida.res = Servir

\* C12: a request of a caller without a session to a route that is not
\* explicitly public is answered with the redirect to /login.
C12_AnonimoVaALogin ==
  (GateRespondio /\ salida.user = NULL_ID /\ ~RutaPublica(salida.pathname))
    => salida.res = Redirigir(P_LOGIN)

\* C12 witness: an anonymous request for /admin/dashboard was redirected to
\* /login.
C12_Witness ==
  /\ GateRespondio
  /\ salida.user = NULL_ID
  /\ salida.pathname = P_ADMIN \o P_DASHBOARD
  /\ salida.res = Redirigir(P_LOGIN)

SinFilas(user) ==
  /\ user # NULL_ID
  /\ user \notin administrativos
  /\ FilasDeUsuario(estudiantes, user) = {}

\* C15 (as claimed): the gate serves no non-public route of the student area
\* or of the admin area to an identity with neither an Admin row nor a
\* Student row.
C15_SinFilasNoPasa ==
  (GateRespondio /\ SinFilas(salida.user) /\ ~RutaPublica(salida.pathname)
     /\ (AreaEstudiante(salida.pathname) \/ BajoAdmin(salida.pathname)))
    => salida.res # Servir

\* ------------------------------------------------ approval workflow claims
\* the rows of horas_voluntariados inserted for a request
HorasDe(solicitudId) == {h \in horas : h.solicitud = solicitudId}

\* C16 (as claimed): the status of a request changes only from pending; an
\* approved or rejected request keeps its status whatever call follows.
C16_EstadosTerminales ==
  [][\A i \in Solicitudes :
       solicitudes'[i].estado # solicitudes[i].estado
         => solicitudes[i].estado = "pendiente"]_vars

\* C17: a call of aprobarSolicitud made for a request that is already
\* approved goes no further than the test of the status: it returns a failure,
\* which is 'Esta solicitud ya ha sido procesada.' whenever the select of the
\* request returned it, and the step changes neither horas_voluntariados nor
\* solicitudes_horas; a call goes on to Paso 2 only for a pending request.
C17_SegundaAprobacionRechazada ==
  [][/\ (retornoSol'.op = "aprobar" /\ retornoSol'.paso = "idle"
           /\ retornoSol'.solicitudId \in Solicitudes
           /\ solicitudes[retornoSol'.solicitudId].estado = "aprobado")
          => /\ ~retornoSol'.res.success
             /\ (retornoSol'.consulta = "ok"
                   => retornoSol'.res = Fallo(MSG_SOL_PROCESADA))
             /\ horas' = horas
             /\ solicitudes' = solicitudes
     /\ \A s \in SolSlots :
          (sol[s].pc = "idle" /\ sol'[s].pc = "estudiante")
            => solicitudes[sol'[s].solicitudId].estado = "pendiente"]_vars

\* C17 witness: the second approval of S1 was refused as already processed;
\* S1 is approved and has the one row of the first approval.
C17_Witness ==
  /\ retornoSol.op = "aprobar"
  /\ retornoSol.solicitudId = "S1"
  /\ retornoSol.res = Fallo(MSG_SOL_PROCESADA)
  /\ solicitudes["S1"].estado = "aprobado"
  /\ Cardinality(HorasDe("S1")) = 1

\* C18 (as claimed): at most one row of horas_voluntariados is ever inserted
\* for one request.
C18_UnaFilaPorSolicitud ==
  \A i \in Solicitudes : Cardinality(HorasDe(i)) <= 1

\* null, empty or whitespace-only
Blanco(x) == x \in {NULL, "", " "}

\* C19 (as claimed): no row of horas_voluntariados holds a blank name or a
\* blank internal ID.
C19_SinBlancosEnHoras ==
  \A h \in horas :
    ~Blanco(h.data.id_becado_interno) /\ ~Blanco(h.data.nombre_completo_becado)

\* the failures aprobarSolicitud returns before the update of Paso 4
FallosAntesDelUpdate ==
  {Fallo(m) : m \in {MSG_SOL_ID_INVALIDO, MSG_SOL_NO_ENCONTRADA, MSG_SOL_PROCESADA,
                      MSG_SOL_SIN_ESTUDIANTE, MSG_SOL_SIN_ID_INTERNO,
                      MSG_SOL_SIN_NOMBRE, MSG_SOL_HORAS, MSG_SOL_ERROR_INSERT,
                      MSG_ERROR_INESPERADO}}

\* C20 (as claimed): a call whose update of the status failed after its insert
\* returns a failure that no earlier step of the operation returns.
C20_FalloParcialDistinto ==
  (retornoSol.op = "aprobar" /\ retornoSol.paso = "actualizar"
     /\ ~retornoSol.res.success)
    => retornoSol.res \notin FallosAntesDelUpdate

\* ------------------------------------------------- authorization claims
\* the call that has just returned was made without a session, by an identity
\* without a row in usuarios_administrativos, or its role lookup failed
Denegada ==
  \/ retorno.caller = NULL_ID
  \/ retorno.caller \notin administrativos
  \/ retorno.consulta \in {"error", "throw"}

\* C21: resetearPerfilEstudiante and desvincularCuentaEstudiante called without
\* a session, by an identity without an Admin row, or with a role lookup that
\* errors or throws, return a failure in a step that leaves estudiantes and the
\* credential store unchanged; only a call of an administrator whose lookup
\* returned goes on to the steps that read and write them.
C21_SinRolNoCambiaNada ==
  [][/\ (retorno'.op \in OpsAdmin /\ Denegada')
          => /\ ~retorno'.res.success
             /\ estudiantes' = estudiantes
             /\ authUsers' = authUsers
     /\ \A s \in AdmSlots :
          adm'[s].pc # "idle"
            => adm'[s].caller \in administrativos /\ adm'[s].consulta = "ok"]_vars

\* C21 witness: the student E2's identity called desvincularCuentaEstudiante
\* for E2 itself and was refused; E2 is still linked.
C21_Witness ==
  /\ retorno.op = "desvincular"
  /\ retorno.caller = 1
  /\ retorno.res = Fallo(MSG_SIN_PERMISOS)
  /\ estudiantes["E2"].auth_user_id = 1

\* C22 (as claimed): a call of aprobarSolicitud or rechazarSolicitud made
\* without a session or by an identity without an Admin row returns a failure,
\* and no step of such a call changes solicitudes_horas or horas_voluntariados.
C22_SoloAdminCambia ==
  [][\A s \in SolSlots :
       LET caller == IF sol'[s].pc # "idle" THEN sol'[s].caller
                     ELSE retornoSol'.caller
       IN (sol'[s] # sol[s] /\ caller \notin administrativos)
            => /\ solicitudes' = solicitudes
               /\ horas' = horas
               /\ (sol'[s].pc = "idle" => ~retornoSol'.res.success)]_vars

\* ------------------------------------------------------ student portal claims
\* C23: marcarNotificacionesComoLeidas, deleteUnaNotificacion(id) and
\* deleteAllMisNotificaciones change only notifications whose receptor_id is
\* the caller: every row of another recipient is in the table after the step
\* as it was before, no row appears, and a call without a user changes
\* nothing and returns a failure
C23_SoloSusNotificaciones ==
  [][ /\ \A n \in notificaciones : n.receptor_id # notif.user => n \in notificaciones'
      /\ \A n \in notificaciones' : n.receptor_id # notif.user => n \in notificaciones
      /\ { n.id : n \in notificaciones' } \subseteq { n.id : n \in notificaciones }
      /\ (retornoNotif'.op # NULL /\ retornoNotif'.user = NULL_ID)
           => ~retornoNotif'.success /\ notificaciones' = notificaciones ]_vars

\* the student deleted by id the notification of the administrator: the call
\* succeeded and the notification is still there
C23_Witness ==
  /\ retornoNotif.op = "deleteUnaNotificacion"
  /\ retornoNotif.user = 1
  /\ retornoNotif.notificationId = 3
  /\ retornoNotif.success
  /\ Notificacion(3, 2, FALSE) \in notificaciones

\* C24: in desvincularCuentaEstudiante the identity is deleted only after the
\* update of the student row went through: the call reaches the deletion only
\* in the step that wrote the row (auth_user_id null, not onboarded, the fresh
\* token); an update that errors or matches no row ends the call with a
\* failure, the table and the credential store as they were; and an admin
\* step removes an identity only from the deletion step
C24_BorraTrasActualizar ==
  [][ \A s \in AdmSlots :
        /\ (adm'[s].pc = "borrar" /\ adm[s].pc # "borrar")
             => /\ adm[s].pc = "update" /\ adm[s].op = "desvincular"
                /\ estudiantes' # estudiantes
                /\ FilaDe(estudiantes', adm[s].idNumero).auth_user_id = NULL_ID
                /\ FilaDe(estudiantes', adm[s].idNumero).ha_completado_onboarding = FALSE
                /\ FilaDe(estudiantes', adm[s].idNumero).onboarding_token = adm'[s].nuevoToken
                /\ adm'[s].nuevoToken # NULL_ID
        /\ (adm[s].pc = "update" /\ adm[s].op = "desvincular"
              /\ adm'[s] # adm[s] /\ estudiantes' = estudiantes)
             => /\ adm'[s].pc = "idle"
                /\ ~retorno'.res.success
                /\ authUsers' = authUsers
        /\ (adm'[s] # adm[s] /\ authUsers' # authUsers) => adm[s].pc = "borrar" ]_vars

\* the update of an unlink matched no row: the call ended with the failure,
\* the identity of the student is still in the credential store
C24_Witness ==
  /\ retorno.op = "desvincular"
  /\ retorno.res = Fallo(MSG_SIN_REGISTRO)
  /\ retorno.authUserId = 1
  /\ 1 \in Ids(authUsers)
  /\ \A s \in AdmSlots : adm[s].pc = "idle"

\* C25: in every interleaving of activarCuenta (its compensation included)
\* and desvincularCuentaEstudiante (two unlinks of the same student at once
\* and a re-activation in between included) the auth_user_id of a row, when
\* it is not null, is the id of an identity of the credential store
C25_VinculoExiste ==
  \A e \in Estudiantes :
    estudiantes[e].auth_user_id # NULL_ID
      => estudiantes[e].auth_user_id \in Ids(authUsers)

\* two unlinks read the identity 1 of E2; the first one ended and E2 was
\* activated again with the token it issued (identity 3); the second one has
\* overwritten the row and is about to delete the identity 1, already gone
C25_Witness ==
  /\ \E s \in AdmSlots :
       /\ adm[s].pc = "borrar"
       /\ adm[s].authUserId = 1
       /\ adm[s].nuevoToken = 4
  /\ 1 \notin Ids(authUsers)
  /\ 3 \in Ids(authUsers)
  /\ act["a1"].pc = "correo"
  /\ act["a1"].token = 3
  /\ act["a1"].filas = 1
  /\ act["a1"].authUserId = 3
  /\ estudiantes["E2"].auth_user_id = NULL_ID
  /\ estudiantes["E2"].onboarding_token = 4

\* ------------------------------------------------- failure semantics claims
\* C26: when the lookup in usuarios_administrativos of the middleware returns
\* an error or throws, the request is answered (served or redirected), the
\* answer is the one the rules of a caller without an Admin row give, and a
\* route under /admin is not served
C26_ConsultaFallidaComoEstudiante ==
  (salida.op = "middleware" /\ salida.consulta \in {"error", "throw"})
    => /\ salida.res \in {Servir} \cup {Redirigir(p) : p \in Pathnames}
       /\ salida.res = ReglasEstudiante(salida.pathname)
       /\ isAdminRoute(salida.pathname) => salida.res # Servir

\* ------------------------------------------------ approval: the ledger row
\* the hours an approval is for, as the specification words it: the override
\* when one is supplied, the hours the student requested otherwise
HorasEfectivas(horasAprobadas, solicitadas) ==
  IF horasAprobadas = UNDEFINED THEN solicitadas ELSE horasAprobadas

\* C27: an aprobarSolicitud(id, h) that succeeds has inserted exactly one row
\* into horas_voluntariados, with the override h as cantidad_horas when one
\* was supplied and the requested hours otherwise, with the internal ID and
\* the name of the student, and leaves the request approved; a call whose
\* effective hours are NaN or not positive never reaches the insert: it
\* returns a failure, no row inserted, the request as it was
C27_FilaAprobada ==
  [][ \A s \in SolSlots :
        /\ (sol[s].pc = "estudiante" /\ sol'[s].pc # "estudiante")
             => /\ horas' = horas /\ solicitudes' = solicitudes
                /\ IF sol'[s].pc = "insertar"
                   THEN ~HorasInvalidas(
                           HorasEfectivas(sol'[s].horasAprobadas,
                                          solicitudes[sol[s].solicitudId].cantidad_horas))
                   ELSE retornoSol'.op = "aprobar" /\ ~retornoSol'.res.success
        /\ (sol[s].pc = "insertar" /\ sol'[s].pc = "actualizar")
             => \E fila \in horas' :
                  LET solicitud == solicitudes[sol[s].solicitudId]
                      estudiante == FilaDe(estudiantes, solicitud.estudiante_id) IN
                  /\ horas' \ horas = {fila}
                  /\ fila.solicitud = sol[s].solicitudId
                  /\ fila.data.cantidad_horas =
                       HorasEfectivas(sol[s].horasAprobadas, solicitud.cantidad_horas)
                  /\ fila.data.id_becado_interno = estudiante.id_becado_interno
                  /\ fila.data.nombre_completo_becado = estudiante.nombre_completo_becado
        /\ (sol'[s].pc = "actualizar" /\ sol[s].pc # "actualizar")
             => sol[s].pc = "insertar"
        /\ (sol[s].pc # "idle" /\ sol'[s].pc = "idle"
              /\ retornoSol'.op = "aprobar" /\ retornoSol'.res.success)
             => /\ sol[s].pc = "actualizar"
                /\ horas' = horas
                /\ solicitudes'[sol[s].solicitudId].estado = "aprobado" ]_vars

\* the request S1 was approved with the override 5: the one row of the ledger
\* has 5 hours and the internal ID and the name of E1; an approval of S2 with
\* the override NaN has just failed on the hours, S2 is still pending
C27_Witness ==
  /\ horas = {[n |-> 1, solicitud |-> "S1",
               data |-> HorasData("BDI-001", "Jane Doe", Numero(5))]}
  /\ solicitudes["S1"].estado = "aprobado"
  /\ retornoSol.op = "aprobar"
  /\ retornoSol.solicitudId = "S2"
  /\ retornoSol.horasAprobadas = NaN
  /\ retornoSol.res = Fallo(MSG_SOL_HORAS)
  /\ solicitudes["S2"].estado = "pendiente"

\* C28: a failure of the welcome email of activarCuenta does not fail the
\* activation: the step of the email writes nothing and goes on to the
\* sign-in whatever its outcome, and a call whose email failed ends in a
\* success redirect, its token burned
C28_CorreoNoFalla ==
  [][ /\ \A a \in ActSlots :
           (act[a].pc = "correo" /\ act'[a] # act[a])
             => /\ act'[a].pc = "login"
                /\ act'[a].tokenQuemado
                /\ estudiantes' = estudiantes
                /\ authUsers' = authUsers
      /\ (retorno'.op = "activarCuenta" /\ retorno'.correo = "fallo")
           => /\ retorno'.res.success
              /\ retorno'.res.message \in Redirecciones
              /\ retorno'.tokenQuemado ]_vars

\* an activation of E1 whose welcome email failed ended in the redirect to
\* /dashboard: the token is burned, the row linked and onboarded
C28_Witness ==
  /\ retorno.op = "activarCuenta"
  /\ retorno.correo = "fallo"
  /\ retorno.res = Exito(REDIRECT_DASHBOARD)
  /\ estudiantes["E1"].auth_user_id = retorno.authUserId
  /\ estudiantes["E1"].ha_completado_onboarding = TRUE
  /\ estudiantes["E1"].onboarding_token = NULL_ID

\* ------------------------------------------------------------ wizard claims
\* C29: a resetearPerfilEstudiante that succeeds on an activated student
\* leaves the link and the onboarding flag as they were and the test of the
\* complete profile false, the gate serves the student area to a caller
\* without an Admin row, /completar-perfil shows the wizard to a student
\* whose test is false, and the test becomes true again only through a
\* guardarPerfilCompleto that succeeds: the step that makes it true is the
\* update of that function, and a call that leaves the profile of its caller
\* complete returns a success
C29_WizardHastaGuardar ==
  [][ /\ (retorno'.op = "reset" /\ retorno'.res.success /\ adm' # adm)
           => LET antes == FilaDe(estudiantes, retorno'.idNumero)
                  despues == FilaDe(estudiantes', retorno'.idNumero) IN
              /\ despues.auth_user_id = antes.auth_user_id
              /\ despues.ha_completado_onboarding = antes.ha_completado_onboarding
              /\ ~PerfilCompleto(despues)
              /\ ReglasEstudiante(P_DASHBOARD) = Servir
              /\ ReglasEstudiante(P_COMPLETAR) = Servir
      /\ \A e \in Estudiantes :
           /\ (estudiantes[e].auth_user_id \in Ids(authUsers)
                 /\ ~PerfilCompleto(estudiantes[e]))
                => CompletarPerfilPageRes(estudiantes[e].auth_user_id, FALSE, FALSE) = Servir
           /\ (~PerfilCompleto(estudiantes[e]) /\ PerfilCompleto(estudiantes'[e]))
                => /\ perfil.pc = "update"
                   /\ perfil.user = estudiantes[e].auth_user_id
      /\ (perfil.pc # "idle" /\ perfil'.pc = "idle" /\ retornoPerfil'.escrito
            /\ \E e \in FilasDeUsuario(estudiantes', retornoPerfil'.user) :
                 PerfilCompleto(estudiantes'[e]))
           => retornoPerfil'.res.success ]_vars

\* the same without the last part: what a call that wrote the profile returns
C29_SinRetorno ==
  [][ /\ (retorno'.op = "reset" /\ retorno'.res.success /\ adm' # adm)
           => LET antes == FilaDe(estudiantes, retorno'.idNumero)
                  despues == FilaDe(estudiantes', retorno'.idNumero) IN
              /\ despues.auth_user_id = antes.auth_user_id
              /\ despues.ha_completado_onboarding = antes.ha_completado_onboarding
              /\ ~PerfilCompleto(despues)
      /\ \A e \in Estudiantes :
           /\ (estudiantes[e].auth_user_id \in Ids(authUsers)
                 /\ ~PerfilCompleto(estudiantes[e]))
                => CompletarPerfilPageRes(estudiantes[e].auth_user_id, FALSE, FALSE) = Servir
           /\ (~PerfilCompleto(estudiantes[e]) /\ PerfilCompleto(estudiantes'[e]))
                => /\ perfil.pc = "update"
                   /\ perfil.user = estudiantes[e].auth_user_id ]_vars

\* ------------------------------------------------------- navigation claims
\* C30: no redirect loop: whoever the caller is and whatever route the
\* navigation starts at, with the lookups in usuarios_administrativos free to
\* fail on each request, the redirects of the middleware, of the pages and
\* of iniciarSesion never lead to a route the navigation has left before
C30_SinBucle == ~nav.repetida

\* the same for the callers without an Admin row
C30_SinBucleSinAdmin == nav.user \notin administrativos => ~nav.repetida

====
